---- MODULE Spec2Model ----
(***************************************************************************)
(* A model of the neptune CLI.  Spec follows one invocation of the         *)
(* `deploy` command (commands/deploy.py) or of the MCP `deploy_project`    *)
(* tool (mcp.py); every collaborator call (platform API, AI service,       *)
(* docker subprocess) is one step whose outcome is chosen                  *)
(* nondeterministically.  The supporting services have specifications of   *)
(* their own: ProvisionSpec (Resource Provisioner), LintGateSpec,          *)
(* GenerateSpec (Spec Resolver), ArchiveSpec (Archive Builder),            *)
(* NeptuneJsonSpec (the spec file), ClientSpec (platform API client),      *)
(* WaitSpec (waiting for a deployment), ConfigSpec (settings),             *)
(* ProvisionTwiceSpec and ProvisionLiveSpec (the provisioner against a     *)
(* platform that keeps its resources, or that becomes ready), MappingSpec  *)
(* (ai_spec_to_platform_request), DeleteSpec (`neptune delete`) and        *)
(* LoginSpec (the browser login and its listener thread).                  *)
(***************************************************************************)
EXTENDS Integers, Sequences, FiniteSets, TLC

VARIABLES
    entry,        \* which entry point this run executes
    pc,           \* position in the entry point's code
    args,         \* the command's options (output_mode and the click flags)
    preflight,    \* result of run_preflight_checks (optional)
    spec_result,  \* result of generate_or_load_spec (optional)
    assessment,   \* result of assess_lint_results (optional)
    deployment,   \* the local `deployment` variable (optional)
    attempts,     \* iterations of the status poll loop entered so far
    project,      \* the local `project` variable of the final fetch (optional)
    calls,        \* every collaborator call made so far, in order, with its outcome
    seenDeployed, \* history: some get_deployment response had status "Deployed"
    json_out,     \* the DeployResult being built (JSON mode only)
    stdout,       \* the objects printed with ui.print_json
    ui_log,       \* the lines printed by NeptuneUI in normal mode
    exit_code,    \* the process's exit code (optional)
    escaped,      \* the exception that left the entry point uncaught (optional)
    result,       \* the value returned by the MCP tool or service function (optional)
    neptune_json, \* the content of neptune.json in the project directory (optional)
    locals        \* the local variables of the service function under way

vars == <<entry, pc, args, preflight, spec_result, assessment, deployment,
          attempts, project, calls, seenDeployed, json_out, stdout, ui_log,
          exit_code, escaped, result, neptune_json, locals>>

-----------------------------------------------------------------------------
(* Optional values: Python's None is the empty tuple, a value x is <<x>>.  *)
None == <<>>
Some(x) == <<x>>

(* Bounds of the model. *)
MaxFindings == 1

(* The fixed attempt budget of the deploy command's status poll. *)
max_attempts == 60

PushTokens == {"tokA", "tokB"}
Image == "registry.example/app:1"
Statuses == {"Created", "Deployed", "Error"}
ProjectName == "proj"

(* Deployment: the server's PostDeploymentResponse. *)
Deployments ==
    [revision : {1}, image : {Image},
     push_token : {None} \cup {Some(t) : t \in PushTokens},
     status : Statuses]

(* AiLintReport: only the counts and the policy flag decide the gate. *)
LintReports ==
    [errors : 0..MaxFindings, warnings : 0..MaxFindings,
     block_on_warnings : BOOLEAN]

(* GetProjectResponse, as far as the deploy command reads it. *)
Projects ==
    {[provisioning_state |-> "Ready",
      running_status |-> Some([current |-> "Running", public_ip |-> Some("10.0.0.1")])],
     [provisioning_state |-> "Ready",
      running_status |-> Some([current |-> "Stopped", public_ip |-> None])],
     [provisioning_state |-> "Pending", running_status |-> None]}

Call(op, ok) == [op |-> op, ok |-> ok]

Args ==
    [output_mode : {"normal", "json"}, skip_spec : BOOLEAN, skip_lint : BOOLEAN,
     allow_ai_errors : BOOLEAN, allow_ai_warnings : BOOLEAN, yes : BOOLEAN]

DefaultArgs ==
    [output_mode |-> "normal", skip_spec |-> FALSE, skip_lint |-> FALSE,
     allow_ai_errors |-> FALSE, allow_ai_warnings |-> FALSE, yes |-> FALSE]

-----------------------------------------------------------------------------
(* NeptuneUI: every method prints only when the output is for a human.     *)
Ui(kind, message) ==
    IF args.output_mode # "json" THEN <<[k |-> kind, m |-> message]>> ELSE <<>>

(* DeployResult as constructed at the start of deploy_command. *)
NewDeployResult ==
    [ok |-> FALSE, project |-> ProjectName, messages |-> <<>>,
     next_action_command |-> "", ai_lint_report |-> None,
     deployment |-> None, final_condition |-> None, final_url |-> None]

Init ==
    /\ entry \in {"deploy_command", "deploy_project"}
    /\ pc = IF entry = "deploy_command" THEN "preflight" ELSE "validate"
    /\ args \in IF entry = "deploy_command" THEN Args ELSE {DefaultArgs}
    /\ preflight = None
    /\ spec_result = None
    /\ assessment = None
    /\ deployment = None
    /\ attempts = 0
    /\ project = None
    /\ calls = <<>>
    /\ seenDeployed = FALSE
    /\ json_out = IF args.output_mode = "json" THEN Some(NewDeployResult) ELSE None
    /\ stdout = <<>>
    /\ ui_log = <<>>
    /\ exit_code = None
    /\ escaped = None
    /\ result = None
    /\ neptune_json = None
    /\ locals = None

-----------------------------------------------------------------------------
(* How the process ends.  A `return` from the click command ends it with   *)
(* status 0, ctx.exit(1) with status 1, and an exception that nothing      *)
(* catches with the interpreter's status 1.                                *)
ExitOfReturn == 0
ExitOfCtxExit == 1
ExitOfTraceback == 1

(* ui.print_json(json_out.model_dump(mode="json")); return *)
JsonReturn(jo) ==
    /\ json_out' = Some(jo)
    /\ stdout' = Append(stdout, jo)
    /\ ui_log' = ui_log
    /\ exit_code' = Some(ExitOfReturn)
    /\ escaped' = None
    /\ pc' = "done"

(* ui.error/warn/info lines, then ctx.exit(1) *)
HumanExit(lines) ==
    /\ ui_log' = ui_log \o lines
    /\ exit_code' = Some(ExitOfCtxExit)
    /\ escaped' = None
    /\ pc' = "done"
    /\ UNCHANGED <<json_out, stdout>>

(* The failure exits of deploy_command: `if json_out: ... else: ...`. *)
Fail(messages, next_action_command, lines) ==
    IF json_out # None
    THEN JsonReturn([json_out[1] EXCEPT !.messages = messages,
                        !.next_action_command = next_action_command])
    ELSE HumanExit(lines)

(* An exception no handler of the command catches. *)
Escape(exc) ==
    /\ escaped' = Some(exc)
    /\ exit_code' = Some(ExitOfTraceback)
    /\ pc' = "done"
    /\ UNCHANGED <<json_out, stdout, ui_log>>

(* The command goes on to the next step, having printed `lines`. *)
Goto(next, lines) ==
    /\ pc' = next
    /\ ui_log' = ui_log \o lines
    /\ UNCHANGED <<json_out, stdout, exit_code, escaped>>

-----------------------------------------------------------------------------
(* Preflight Checker: what run_preflight_checks may report.  The guidance  *)
(* is populated precisely when the Dockerfile is missing.                  *)
Guidances ==
    [project_type : {"python"}, start_command : {None, Some("uvicorn")}]

PreflightResults ==
    {p \in [dockerfile_exists : BOOLEAN,
            dockerfile_guidance : {None} \cup {Some(g) : g \in Guidances},
            docker_available : BOOLEAN, docker_running : BOOLEAN] :
        (p.dockerfile_guidance # None) <=> ~p.dockerfile_exists}

(* The normal-mode lines of the missing-Dockerfile exit. *)
DockerfileMissingLines(guidance) ==
    Ui("error", "Dockerfile not found")
    \o (IF guidance # None
        THEN Ui("step", "Detected project type: " \o guidance[1].project_type)
             \o (IF guidance[1].start_command # None
                 THEN Ui("step", "Detected start command: "
                                 \o guidance[1].start_command[1])
                 ELSE <<>>)
             \o Ui("info", "A Dockerfile is required to deploy to Neptune.")
             \o Ui("step", "Example Dockerfile:")
             \o Ui("info", "Requirements:")
        ELSE <<>>)
    \o Ui("info", "After creating the Dockerfile, run 'neptune deploy' again.")

(* Mutant: the check of the Docker daemon is left out. *)
PreflightFailure_NoDaemonCheck(p) ==
    IF ~p.dockerfile_exists THEN "dockerfile"
    ELSE IF ~p.docker_available THEN "docker_missing"
    ELSE "none"

(* The order in which deploy_command tests the preflight result. *)
PreflightFailure(p) ==
    IF ~p.dockerfile_exists THEN "dockerfile"
    ELSE IF ~p.docker_available THEN "docker_missing"
    ELSE IF ~p.docker_running THEN "docker_stopped"
    ELSE "none"

(* Step 1: Preflight Checks *)
deploy_Preflight ==
    /\ UNCHANGED <<neptune_json, locals>>
    /\ entry = "deploy_command" /\ pc = "preflight"
    /\ \E p \in PreflightResults :
        /\ preflight' = Some(p)
        /\ calls' = Append(calls, Call("run_preflight_checks", TRUE))
        /\ IF PreflightFailure(p) = "dockerfile" THEN
              IF json_out # None THEN
                 LET jo == [json_out[1] EXCEPT
                              !.messages =
                                 <<"Dockerfile not found in project directory",
                                   IF p.dockerfile_guidance # None
                                   THEN "Detected project type: "
                                        \o p.dockerfile_guidance[1].project_type
                                   ELSE "",
                                   "",
                                   "To deploy, you need to create a Dockerfile.">>,
                              !.next_action_command =
                                 "Create a Dockerfile, then run: neptune deploy"]
                 IN /\ json_out' = Some(jo)
                    /\ stdout' = Append(stdout,
                          IF p.dockerfile_guidance # None
                          THEN [f \in DOMAIN jo \cup {"dockerfile_guidance"} |->
                                  IF f = "dockerfile_guidance"
                                  THEN p.dockerfile_guidance ELSE jo[f]]
                          ELSE jo)
                    /\ exit_code' = Some(ExitOfReturn)
                    /\ pc' = "done"
                    /\ UNCHANGED <<ui_log, escaped>>
              ELSE HumanExit(Ui("header", "Preflight")
                             \o DockerfileMissingLines(p.dockerfile_guidance))
           ELSE IF PreflightFailure(p) = "docker_missing" THEN
              Fail(<<"Docker is not installed or not found in PATH",
                     "Install Docker: https://docs.docker.com/get-docker/">>,
                   "Install Docker, then run: neptune deploy",
                   Ui("header", "Preflight")
                   \o Ui("success", "Dockerfile found")
                   \o Ui("warn", "Docker is not installed or not found in PATH")
                   \o Ui("info", "Install Docker: https://docs.docker.com/get-docker/"))
           ELSE IF PreflightFailure(p) = "docker_stopped" THEN
              Fail(<<"Docker daemon is not running", "Start Docker and try again">>,
                   "Start Docker, then run: neptune deploy",
                   Ui("header", "Preflight")
                   \o Ui("success", "Dockerfile found")
                   \o Ui("warn", "Docker daemon is not running")
                   \o Ui("info", "Start Docker (e.g., Docker Desktop) and retry."))
           ELSE Goto("spec", Ui("header", "Preflight")
                             \o Ui("success", "Dockerfile found")
                             \o Ui("success", "Docker is installed and running"))
    /\ UNCHANGED <<entry, args, spec_result, assessment, deployment, attempts,
                   project, seenDeployed, result>>

-----------------------------------------------------------------------------
(* Spec Resolver: the outcomes of generate_or_load_spec.  With             *)
(* skip_generation the on-disk spec must exist; with skip_lint no lint     *)
(* report is produced.                                                     *)
SpecResults(skip_generation, skip_lint) ==
    [generated : {~skip_generation},
     ai_lint_report : IF skip_lint THEN {None}
                      ELSE {None} \cup {Some(r) : r \in LintReports}]

SpecOutcomes(skip_generation, skip_lint) ==
    (IF skip_generation
     THEN {[exc |-> "NeptuneJsonNotFoundError"]}
     ELSE {[exc |-> "SpecGenerationError"]})
    \cup {[exc |-> "none", value |-> r] :
             r \in SpecResults(skip_generation, skip_lint)}

SpecGenerationErrorText == "Failed to generate spec"

(* Step 2: Generate or Load Spec *)
deploy_Spec ==
    /\ UNCHANGED <<neptune_json, locals>>
    /\ entry = "deploy_command" /\ pc = "spec"
    /\ \E o \in SpecOutcomes(args.skip_spec, args.skip_lint) :
        /\ calls' = Append(calls, Call("generate_or_load_spec", o.exc = "none"))
        /\ IF o.exc = "NeptuneJsonNotFoundError" THEN
              /\ Fail(<<"Cannot skip spec generation because neptune.json does not exist",
                        "Run 'neptune generate spec' first">>,
                      "neptune generate spec",
                      Ui("header", "Configuration")
                      \o Ui("error", "Cannot skip spec generation because neptune.json does not exist"))
              /\ UNCHANGED spec_result
           ELSE IF o.exc = "SpecGenerationError" THEN
              /\ Fail(<<SpecGenerationErrorText>>, "neptune deploy",
                      Ui("header", "Configuration")
                      \o Ui("error", SpecGenerationErrorText))
              /\ UNCHANGED spec_result
           ELSE
              /\ spec_result' = Some(o.value)
              /\ Goto("lint",
                      Ui("header", "Configuration")
                      \o (IF o.value.generated
                          THEN Ui("success", "Generated neptune.json")
                          ELSE Ui("success", "Using existing neptune.json"))
                      \o (IF args.skip_lint /\ args.output_mode # "json"
                          THEN Ui("step", "Skipping AI lint (--skip-lint)")
                          ELSE <<>>))
    /\ UNCHANGED <<entry, args, preflight, assessment, deployment, attempts,
                   project, seenDeployed, result>>

-----------------------------------------------------------------------------
(* Lint Gate *)
Plural(n) == IF n = 1 THEN "" ELSE "s"

(* Mutant: any warning blocks, whatever the report's policy flag says. *)
assess_lint_gate_AnyWarning(report, allow_errors, allow_warnings) ==
    LET r1 == IF report.errors > 0 /\ ~allow_errors
              THEN <<"blocking errors reported by AI lint">> ELSE <<>>
        r2 == IF report.warnings > 0 /\ ~allow_warnings
              THEN <<"warnings with block_on_warnings enabled">> ELSE <<>>
    IN [blocking |-> Len(r1 \o r2) > 0, reasons |-> r1 \o r2]

(* Mutant: allow_warnings is not consulted. *)
assess_lint_gate_NoWarningOverride(report, allow_errors, allow_warnings) ==
    LET r1 == IF report.errors > 0 /\ ~allow_errors
              THEN <<"blocking errors reported by AI lint">> ELSE <<>>
        r2 == IF report.block_on_warnings /\ report.warnings > 0
              THEN <<"warnings with block_on_warnings enabled">> ELSE <<>>
    IN [blocking |-> Len(r1 \o r2) > 0, reasons |-> r1 \o r2]

assess_lint_gate(report, allow_errors, allow_warnings) ==
    LET error_count == report.errors
        warning_count == report.warnings
        r1 == IF error_count > 0 /\ ~allow_errors
              THEN <<ToString(error_count) \o " blocking error"
                     \o Plural(error_count) \o " reported by AI lint">>
              ELSE <<>>
        r2 == IF report.block_on_warnings /\ warning_count > 0 /\ ~allow_warnings
              THEN <<ToString(warning_count) \o " warning"
                     \o Plural(warning_count) \o " with block_on_warnings enabled">>
              ELSE <<>>
        reasons == r1 \o r2
    IN [blocking |-> Len(reasons) > 0, reasons |-> reasons]

(* The deploy command's gate is the same function as the lint command's. *)
assess_lint_results(report, allow_errors, allow_warnings) ==
    assess_lint_gate(report, allow_errors, allow_warnings)

(* for reason in assessment.reasons: ui.warn(f"Blocking: {reason}") *)
RECURSIVE BlockingLines(_)
BlockingLines(reasons) ==
    IF reasons = <<>> THEN <<>>
    ELSE Ui("warn", "Blocking: " \o Head(reasons)) \o BlockingLines(Tail(reasons))

(* Mutant: only the first reason is surfaced. *)
LintBlockMessages_FirstOnly(reasons) ==
    <<Head(reasons), "Deployment aborted due to AI lint findings.">>

(* json_out.messages of the lint block *)
LintBlockMessages(reasons) ==
    reasons \o <<"Deployment aborted due to AI lint findings.">>

(* Step 3: Check Lint Results *)
deploy_Lint ==
    /\ UNCHANGED <<neptune_json, locals>>
    /\ entry = "deploy_command" /\ pc = "lint"
    /\ IF spec_result[1].ai_lint_report # None THEN
          LET report == spec_result[1].ai_lint_report[1]
              a == assess_lint_results(report, args.allow_ai_errors,
                                       args.allow_ai_warnings)
              shown == IF json_out # None THEN <<>>
                       ELSE Ui("report", "AI lint report")
          IN /\ assessment' = Some(a)
             /\ calls' = Append(calls, Call("assess_lint_results", ~a.blocking))
             /\ IF a.blocking THEN
                   IF json_out # None
                   THEN JsonReturn([json_out[1] EXCEPT
                            !.ai_lint_report = Some(report),
                            !.messages = LintBlockMessages(a.reasons),
                            !.next_action_command =
                                "Fix issues, then run: neptune deploy"])
                   ELSE HumanExit(
                            shown \o BlockingLines(a.reasons)
                            \o Ui("info", "Use --allow-ai-errors / --allow-ai-warnings to override.")
                            \o Ui("info", "Deployment aborted; resolve findings or override to continue."))
                ELSE
                   /\ pc' = "confirm"
                   /\ ui_log' = ui_log \o shown
                   /\ json_out' = IF json_out # None
                                  THEN Some([json_out[1] EXCEPT
                                               !.ai_lint_report = Some(report)])
                                  ELSE json_out
                   /\ UNCHANGED <<stdout, exit_code, escaped>>
       ELSE
          /\ Goto("confirm", <<>>)
          /\ UNCHANGED <<assessment, calls>>
    /\ UNCHANGED <<entry, args, preflight, spec_result, deployment, attempts,
                   project, seenDeployed, result>>

(* Step 4: Confirmation *)
deploy_Confirm ==
    /\ UNCHANGED <<neptune_json, locals>>
    /\ entry = "deploy_command" /\ pc = "confirm"
    /\ IF ~args.yes /\ args.output_mode # "json" THEN
          \E answer \in BOOLEAN :
             /\ calls' = Append(calls, Call("confirm", answer))
             /\ IF ~answer THEN
                   /\ ui_log' = ui_log \o Ui("step", "Aborted by user.")
                   /\ exit_code' = Some(ExitOfReturn)
                   /\ pc' = "done"
                   /\ UNCHANGED <<json_out, stdout, escaped>>
                ELSE Goto("provision", <<>>)
       ELSE
          /\ Goto("provision", <<>>)
          /\ UNCHANGED calls
    /\ UNCHANGED <<entry, args, preflight, spec_result, assessment, deployment,
                   attempts, project, seenDeployed, result>>

-----------------------------------------------------------------------------
(* Resource Provisioner, as the deploy command sees it. *)
ProvisioningErrorText == "Provisioning failed"

(* Mutant: a provisioning error is swallowed and the deploy goes on. *)
AfterProvision_Swallow(exc) ==
    Goto("create_deployment",
         Ui("header", "Infrastructure") \o Ui("success", "Infrastructure ready"))

(* `except ProvisioningError`, or on to the next step *)
AfterProvision(exc) ==
    IF exc = "ProvisioningError"
    THEN Fail(<<ProvisioningErrorText>>, "neptune deploy",
              Ui("header", "Infrastructure")
              \o Ui("error", ProvisioningErrorText))
    ELSE Goto("create_deployment",
              Ui("header", "Infrastructure")
              \o Ui("success", "Infrastructure ready"))

(* Step 5: Provision Infrastructure *)
deploy_Provision ==
    /\ UNCHANGED <<neptune_json, locals>>
    /\ entry = "deploy_command" /\ pc = "provision"
    /\ \E exc \in {"none", "ProvisioningError"} :
        /\ calls' = Append(calls, Call("provision_resources", exc = "none"))
        /\ AfterProvision(exc)
    /\ UNCHANGED <<entry, args, preflight, spec_result, assessment, deployment,
                   attempts, project, seenDeployed, result>>

(* client.create_deployment: a PostDeploymentResponse, or an HTTP error. *)
CreateDeploymentOutcomes ==
    {[exc |-> "HTTPError"]} \cup {[exc |-> "none", value |-> d] : d \in Deployments}

(* Step 6, first half: Create Deployment *)
deploy_CreateDeployment ==
    /\ UNCHANGED <<neptune_json, locals>>
    /\ entry = "deploy_command" /\ pc = "create_deployment"
    /\ \E o \in CreateDeploymentOutcomes :
        /\ calls' = Append(calls, Call("create_deployment", o.exc = "none"))
        /\ IF o.exc # "none" THEN
              /\ Fail(<<"Failed to create deployment: " \o o.exc>>, "neptune deploy",
                      Ui("header", "Build")
                      \o Ui("error", "Failed to create deployment: " \o o.exc))
              /\ UNCHANGED deployment
           ELSE
              /\ deployment' = Some(o.value)
              /\ Goto("login",
                      Ui("header", "Build")
                      \o Ui("step", "Building image for revision "
                                    \o ToString(o.value.revision) \o "..."))
    /\ UNCHANGED <<entry, args, preflight, spec_result, assessment, attempts,
                   project, seenDeployed, result>>

-----------------------------------------------------------------------------
(* Image Builder/Pusher as called by the deploy command: login (only with  *)
(* a push token), build, push; each a docker process whose exit code is    *)
(* the sole success signal.                                                *)
ExitCodes == {0, 1}

LoginNeeded(push_token) == push_token # None

(* The step that follows a step whose process exited 0; after the push the *)
(* function returns and the command goes on to poll.                       *)
AfterStep(step) ==
    CASE step = "login" -> "build"
      [] step = "build" -> "push"
      [] step = "push" -> "poll"

(* The status text streamed to the caller before each step. *)
StatusText(step) ==
    CASE step = "login" -> "Logging in to registry..."
      [] step = "build" -> "Building image..."
      [] step = "push" -> "Pushing image..."

(* on_status=lambda msg: ui.step("", msg) if output_mode != JSON else None *)
on_status(msg) == IF args.output_mode # "json" THEN Ui("step", msg) ELSE <<>>

DockerLoginErrorText == "docker login exited non-zero"
DockerPushErrorText == "docker push exited non-zero"

(* except DockerLoginError; `shown` are the status lines printed before it *)
OnDockerLoginError(shown) ==
    Fail(<<"Docker login to registry failed", DockerLoginErrorText>>,
         "neptune deploy",
         shown \o Ui("error", "Docker login to registry failed"))

(* except DockerBuildError: e.output is the captured output, if any *)
OnDockerBuildError(output, shown) ==
    Fail(<<"Docker build failed", "Check your Dockerfile for errors">>
         \o (IF output # None THEN output ELSE <<>>),
         "Fix Dockerfile, then run: neptune deploy",
         shown \o Ui("error", "Docker build failed")
         \o Ui("info", "Check your Dockerfile for errors and try again."))

(* except DockerPushError *)
OnDockerPushError(shown) ==
    Fail(<<"Docker push failed", DockerPushErrorText>>,
         "neptune deploy",
         shown \o Ui("error", "Docker push failed"))

(* Step 6, build_and_push_image: docker login *)
deploy_Login ==
    /\ UNCHANGED <<neptune_json, locals>>
    /\ entry = "deploy_command" /\ pc = "login"
    /\ IF LoginNeeded(deployment[1].push_token) THEN
          \E rc \in ExitCodes :
             /\ calls' = Append(calls, Call("docker_login", rc = 0))
             /\ IF rc # 0
                THEN OnDockerLoginError(on_status(StatusText("login")))
                ELSE Goto(AfterStep("login"), on_status(StatusText("login")))
       ELSE
          /\ Goto(AfterStep("login"), <<>>)
          /\ UNCHANGED calls
    /\ UNCHANGED <<entry, args, preflight, spec_result, assessment, deployment,
                   attempts, project, seenDeployed, result>>

(* Step 6, build_and_push_image: docker build *)
deploy_Build ==
    /\ UNCHANGED <<neptune_json, locals>>
    /\ entry = "deploy_command" /\ pc = "build"
    /\ \E rc \in ExitCodes, output \in {None, Some("build output")} :
        /\ calls' = Append(calls, Call("docker_build", rc = 0))
        /\ IF rc # 0
           THEN OnDockerBuildError(output, on_status(StatusText("build")))
           ELSE /\ output = None
                /\ Goto(AfterStep("build"), on_status(StatusText("build")))
    /\ UNCHANGED <<entry, args, preflight, spec_result, assessment, deployment,
                   attempts, project, seenDeployed, result>>

(* Step 6, build_and_push_image: docker push *)
deploy_Push ==
    /\ UNCHANGED <<neptune_json, locals>>
    /\ entry = "deploy_command" /\ pc = "push"
    /\ \E rc \in ExitCodes :
        /\ calls' = Append(calls, Call("docker_push", rc = 0))
        /\ IF rc # 0
           THEN OnDockerPushError(on_status(StatusText("push")))
           ELSE Goto(AfterStep("push"),
                     on_status(StatusText("push"))
                     \o Ui("success", "Image built and pushed successfully")
                     \o Ui("header", "Deploy")
                     \o Ui("step", "Deployment created (revision "
                                   \o ToString(deployment[1].revision) \o ")")
                     \o Ui("step", "Waiting for deployment to complete..."))
    /\ UNCHANGED <<entry, args, preflight, spec_result, assessment, deployment,
                   attempts, project, seenDeployed, result>>

-----------------------------------------------------------------------------
(* client.get_deployment: the deployment's current snapshot, or an HTTP    *)
(* error (raise_for_status).                                               *)
GetDeploymentOutcomes(revision) ==
    {[exc |-> "HTTPError"]}
    \cup {[exc |-> "none",
           value |-> [revision |-> revision, image |-> Image,
                      push_token |-> None, status |-> st]] : st \in Statuses}

(* Mutant: the loop has no `break` on "Deployed". *)
PollAgain_NoBreak(status, n) == n < max_attempts

(* The poll loop goes round again: the status is not "Deployed" and the    *)
(* range(max_attempts) is not exhausted after n iterations.                *)
PollAgain(status, n) == status # "Deployed" /\ n < max_attempts

(* Step 7: Wait for Deployment (one iteration of the loop) *)
deploy_Poll ==
    /\ UNCHANGED <<neptune_json, locals>>
    /\ entry = "deploy_command" /\ pc = "poll"
    /\ \E o \in GetDeploymentOutcomes(deployment[1].revision) :
        /\ calls' = Append(calls, Call("get_deployment", o.exc = "none"))
        /\ attempts' = attempts + 1
        /\ IF o.exc # "none" THEN
              /\ Escape(o.exc)
              /\ UNCHANGED <<deployment, seenDeployed>>
           ELSE
              /\ deployment' = Some(o.value)
              /\ seenDeployed' = (seenDeployed \/ o.value.status = "Deployed")
              /\ Goto(IF PollAgain(o.value.status, attempts + 1)
                      THEN "poll" ELSE "final", <<>>)
    /\ UNCHANGED <<entry, args, preflight, spec_result, assessment, project,
                   result>>

(* client.get_project: None on 404, an HTTP error otherwise. *)
GetProjectOutcomes ==
    {[exc |-> "HTTPError"], [exc |-> "none", value |-> None]}
    \cup {[exc |-> "none", value |-> Some(p)] : p \in Projects}

(* The human-readable status report at the end of a deploy. *)
StatusLines(p) ==
    Ui("header", "Status")
    \o (IF p # None THEN
          LET state == p[1].provisioning_state
              running == IF p[1].running_status # None
                         THEN p[1].running_status[1].current ELSE "Unknown"
          IN (IF state = "Ready" THEN Ui("success", "Infrastructure: " \o state)
              ELSE Ui("step", "Infrastructure: " \o state))
             \o (IF running = "Running" THEN Ui("success", "Service: " \o running)
                 ELSE IF running \in {"Stopped", "Error"}
                      THEN Ui("warn", "Service: " \o running)
                      ELSE Ui("step", "Service: " \o running))
             \o (IF p[1].running_status # None
                    /\ p[1].running_status[1].public_ip # None
                 THEN Ui("step", "URL: http://"
                                 \o p[1].running_status[1].public_ip[1])
                 ELSE <<>>)
             \o (IF state = "Ready" /\ running = "Running"
                 THEN Ui("success", "Deployment complete!") ELSE <<>>)
        ELSE <<>>)

(* Mutant: the result of a run that got past the poll loop keeps ok = false. *)
FinalResult_NotOk(jo, d, p) ==
    [jo EXCEPT
       !.deployment = Some([revision |-> d.revision, status |-> d.status]),
       !.next_action_command = "neptune status"]

(* The DeployResult of a run that got past the poll loop. *)
FinalResult(jo, d, p) ==
    [jo EXCEPT
       !.ok = TRUE,
       !.deployment = Some([revision |-> d.revision, status |-> d.status]),
       !.final_condition =
           IF p # None
           THEN Some([provisioning_state |-> p[1].provisioning_state,
                      running_status |-> p[1].running_status])
           ELSE jo.final_condition,
       !.final_url =
           IF p # None /\ p[1].running_status # None
              /\ p[1].running_status[1].public_ip # None
           THEN Some("http://" \o p[1].running_status[1].public_ip[1])
           ELSE jo.final_url,
       !.next_action_command = "neptune status"]

(* Get final status, and report. *)
deploy_Final ==
    /\ UNCHANGED <<neptune_json, locals>>
    /\ entry = "deploy_command" /\ pc = "final"
    /\ \E o \in GetProjectOutcomes :
        /\ calls' = Append(calls, Call("get_project", o.exc = "none"))
        /\ IF o.exc # "none" THEN
              /\ Escape(o.exc)
              /\ UNCHANGED project
           ELSE
              /\ project' = o.value
              /\ IF json_out # None
                 THEN JsonReturn(FinalResult(json_out[1], deployment[1], o.value))
                 ELSE /\ ui_log' = ui_log \o StatusLines(o.value)
                      /\ exit_code' = Some(ExitOfReturn)
                      /\ pc' = "done"
                      /\ UNCHANGED <<json_out, stdout, escaped>>
    /\ UNCHANGED <<entry, args, preflight, spec_result, assessment, deployment,
                   attempts, seenDeployed, result>>

-----------------------------------------------------------------------------
(* The MCP tool deploy_project (mcp.py).  It returns a dict, or an         *)
(* exception leaves it.                                                    *)
Return(dict) ==
    /\ result' = Some(dict)
    /\ escaped' = None
    /\ pc' = "done"

Raise(exc) ==
    /\ escaped' = Some(exc)
    /\ result' = None
    /\ pc' = "done"

(* validate_neptune_json: an error dict if the file does not exist *)
validate_neptune_json(exists) ==
    IF ~exists
    THEN Some([status |-> "error", message |-> "neptune.json not found",
               next_step |-> "make sure a 'neptune.json' file exists"])
    ELSE None

(* validation, reading neptune.json, then client.create_deployment *)
deploy_project_Create ==
    /\ UNCHANGED <<neptune_json, locals>>
    /\ entry = "deploy_project" /\ pc = "validate"
    /\ \E exists \in BOOLEAN :
        LET validation_result == validate_neptune_json(exists)
        IN IF validation_result # None THEN
              /\ Return(validation_result[1])
              /\ UNCHANGED <<deployment, calls>>
           ELSE
              \E o \in CreateDeploymentOutcomes :
                 /\ calls' = Append(calls, Call("create_deployment", o.exc = "none"))
                 /\ IF o.exc # "none" THEN
                       /\ Return([status |-> "error",
                                  message |-> "failed to create deployment for project '"
                                              \o ProjectName \o "': " \o o.exc,
                                  next_step |-> "ensure the project is provisioned with 'provision_resources' and try again"])
                       /\ UNCHANGED deployment
                    ELSE
                       /\ deployment' = Some(o.value)
                       /\ pc' = "login"
                       /\ UNCHANGED <<result, escaped>>
    /\ UNCHANGED <<entry, args, preflight, spec_result, assessment, attempts,
                   project, seenDeployed, json_out, stdout, ui_log, exit_code>>

(* Mutant: the login step is never taken. *)
McpLoginNeeded_Never(push_token) == FALSE

(* `if (push_token := deployment.push_token) is not None` *)
McpLoginNeeded(push_token) == push_token # None

(* The dict returned when docker login exits non-zero. *)
LoginFailedResult(registry, push_token) ==
    [status |-> "error", message |-> "docker login failed",
     registry |-> registry, username |-> "AWS", password |-> push_token,
     next_step |-> "ensure your Docker setup is correct and try again"]

(* docker login with the push token on standard input *)
deploy_project_Login ==
    /\ UNCHANGED <<neptune_json, locals>>
    /\ entry = "deploy_project" /\ pc = "login"
    /\ IF McpLoginNeeded(deployment[1].push_token) THEN
          \E rc \in ExitCodes :
             /\ calls' = Append(calls, Call("docker_login", rc = 0))
             /\ IF rc # 0
                THEN Return(LoginFailedResult("registry.example", deployment[1].push_token[1]))
                ELSE /\ pc' = "build"
                     /\ UNCHANGED <<result, escaped>>
       ELSE
          /\ pc' = "build"
          /\ UNCHANGED <<calls, result, escaped>>
    /\ UNCHANGED <<entry, args, preflight, spec_result, assessment, deployment,
                   attempts, project, seenDeployed, json_out, stdout, ui_log,
                   exit_code>>

(* Mutant: the exit code of the docker command is not checked. *)
CheckedRun_Unchecked(cmd, rc, next) ==
    /\ pc' = next
    /\ UNCHANGED <<result, escaped>>

(* subprocess.run(cmd, check=True): a non-zero exit raises                 *)
(* CalledProcessError, which names the command.                            *)
CheckedRun(cmd, rc, next) ==
    IF rc # 0
    THEN Raise("CalledProcessError: docker " \o cmd)
    ELSE /\ pc' = next
         /\ UNCHANGED <<result, escaped>>

(* docker build *)
deploy_project_Build ==
    /\ UNCHANGED <<neptune_json, locals>>
    /\ entry = "deploy_project" /\ pc = "build"
    /\ \E rc \in ExitCodes :
        /\ calls' = Append(calls, Call("docker_build", rc = 0))
        /\ CheckedRun("build", rc, "push")
    /\ UNCHANGED <<entry, args, preflight, spec_result, assessment, deployment,
                   attempts, project, seenDeployed, json_out, stdout, ui_log,
                   exit_code>>

(* docker push *)
deploy_project_Push ==
    /\ UNCHANGED <<neptune_json, locals>>
    /\ entry = "deploy_project" /\ pc = "push"
    /\ \E rc \in ExitCodes :
        /\ calls' = Append(calls, Call("docker_push", rc = 0))
        /\ CheckedRun("push", rc, "poll")
    /\ UNCHANGED <<entry, args, preflight, spec_result, assessment, deployment,
                   attempts, project, seenDeployed, json_out, stdout, ui_log,
                   exit_code>>

(* The model follows the tool's unbounded poll loop for MaxPolls polls,    *)
(* one more than the deploy command's attempt budget.                      *)
MaxPolls == 61

(* `while deployment.status != "Deployed"` *)
McpPollAgain(status) == status # "Deployed"

(* one iteration of the poll loop, or the return after it *)
deploy_project_Poll ==
    /\ UNCHANGED <<neptune_json, locals>>
    /\ entry = "deploy_project" /\ pc = "poll"
    /\ IF McpPollAgain(deployment[1].status) THEN
          /\ attempts < MaxPolls
          /\ \E o \in GetDeploymentOutcomes(deployment[1].revision) :
              /\ calls' = Append(calls, Call("get_deployment", o.exc = "none"))
              /\ attempts' = attempts + 1
              /\ IF o.exc # "none" THEN
                    /\ Raise(o.exc)
                    /\ UNCHANGED <<deployment, seenDeployed>>
                 ELSE
                    /\ deployment' = Some(o.value)
                    /\ seenDeployed' = (seenDeployed \/ o.value.status = "Deployed")
                    /\ UNCHANGED <<pc, result, escaped>>
       ELSE
          /\ Return([deployment_status |-> "Deployed",
                     deployment_revision |-> deployment[1].revision,
                     next_step |-> "Investigate the deployment status with 'get_deployment_status'"])
          /\ UNCHANGED <<deployment, attempts, calls, seenDeployed>>
    /\ UNCHANGED <<entry, args, preflight, spec_result, assessment, project,
                   json_out, stdout, ui_log, exit_code>>

Next ==
    \/ deploy_Preflight
    \/ deploy_Spec
    \/ deploy_Lint
    \/ deploy_Confirm
    \/ deploy_Provision
    \/ deploy_CreateDeployment
    \/ deploy_Login
    \/ deploy_Build
    \/ deploy_Push
    \/ deploy_Poll
    \/ deploy_Final
    \/ deploy_project_Create
    \/ deploy_project_Login
    \/ deploy_project_Build
    \/ deploy_project_Push
    \/ deploy_project_Poll

Spec == Init /\ [][Next]_vars

-----------------------------------------------------------------------------
(* Reading the call log. *)
Called(op) == \E i \in DOMAIN calls : calls[i].op = op
Succeeded(op) == \E i \in DOMAIN calls : calls[i].op = op /\ calls[i].ok
Failed(op) == \E i \in DOMAIN calls : calls[i].op = op /\ ~calls[i].ok
CallCount(op) == Cardinality({i \in DOMAIN calls : calls[i].op = op})

(* The position of each collaborator call in the orchestrator's chain. *)
StageRank(op) ==
    CASE op = "run_preflight_checks" -> 1
      [] op = "generate_or_load_spec" -> 2
      [] op = "assess_lint_results" -> 3
      [] op = "confirm" -> 4
      [] op = "provision_resources" -> 5
      [] op = "create_deployment" -> 6
      [] op = "docker_login" -> 7
      [] op = "docker_build" -> 8
      [] op = "docker_push" -> 9
      [] op = "get_deployment" -> 10
      [] op = "get_project" -> 11

IsDeploy == entry = "deploy_command"
IsJson == args.output_mode = "json"

C2_PreflightFailureStopsRun ==
    (/\ IsDeploy /\ preflight # None
     /\ \/ ~preflight[1].dockerfile_exists
        \/ ~preflight[1].docker_available
        \/ ~preflight[1].docker_running)
    => /\ pc = "done"
       /\ calls = <<Call("run_preflight_checks", TRUE)>>
       /\ ~Called("generate_or_load_spec")
       /\ ~Called("provision_resources")
       /\ ~Called("create_deployment")

(* The run ended because the daemon is not running, all else being fine. *)
C2_Witness ==
    /\ IsDeploy /\ pc = "done" /\ preflight # None
    /\ preflight[1].dockerfile_exists /\ preflight[1].docker_available
    /\ ~preflight[1].docker_running

(* The ui.warn lines of the normal-mode output. *)
WarnLines == SelectSeq(ui_log, LAMBDA l : l.k = "warn")

C4_PollBudgetAndEarlyStop ==
    [][IsDeploy =>
          /\ CallCount("get_deployment")' <= max_attempts
          /\ seenDeployed => CallCount("get_deployment")' = CallCount("get_deployment")]_vars

(* The poll stopped early, on a "Deployed" response after several polls. *)
C4_Witness ==
    /\ IsDeploy /\ pc = "done" /\ seenDeployed
    /\ CallCount("get_deployment") > 2
    /\ CallCount("get_deployment") < max_attempts

(* The ui.error lines of the normal-mode output. *)
ErrorLines == SelectSeq(ui_log, LAMBDA l : l.k = "error")

C6_JsonAlwaysOneStructuredObject ==
    (IsDeploy /\ IsJson /\ pc = "done")
    => /\ escaped = None
       /\ Len(stdout) = 1
       /\ {"ok", "messages", "next_action_command"} \subseteq DOMAIN stdout[1]

(* The failure exits the deploy command reports. *)
ReportedFailure ==
    \/ preflight # None /\ PreflightFailure(preflight[1]) # "none"
    \/ \E op \in {"generate_or_load_spec", "assess_lint_results",
                  "provision_resources", "create_deployment", "docker_login",
                  "docker_build", "docker_push"} : Failed(op)

(* C7: every failure exit of the deploy command ends the process with      *)
(* exit code 1 in normal and in JSON mode alike, and exit code 0 occurs    *)
(* only when the run reports success.                                      *)
C7_FailureExitsWithCodeOne ==
    (IsDeploy /\ pc = "done")
    => /\ ReportedFailure => exit_code = Some(1)
       /\ exit_code = Some(0) => Succeeded("get_project")

(* C8: if docker build exits non-zero, docker push is never invoked and    *)
(* the failure is reported as a build failure: "Docker build failed" in    *)
(* the deploy command (first JSON message, or the only error line), the    *)
(* build command's CalledProcessError from the MCP tool.                   *)
C8_BuildFailureNeverPushes ==
    Failed("docker_build")
    => /\ pc = "done"
       /\ ~Called("docker_push")
       /\ IF IsDeploy
          THEN IF IsJson
               THEN /\ Len(stdout) = 1
                    /\ ~stdout[1].ok
                    /\ stdout[1].messages[1] = "Docker build failed"
                    /\ \A i \in DOMAIN stdout[1].messages :
                          stdout[1].messages[i] \notin
                             {"Docker push failed", "Docker login to registry failed"}
               ELSE /\ exit_code = Some(1)
                    /\ Len(ErrorLines) = 1
                    /\ ErrorLines[1].m = "Docker build failed"
          ELSE /\ escaped = Some("CalledProcessError: docker build")
               /\ result = None

(* The MCP tool's build failed after a successful login. *)
C8_Witness ==
    /\ entry = "deploy_project" /\ pc = "done"
    /\ Succeeded("docker_login") /\ Failed("docker_build")

(* The position of the (single) call of op in the log. *)
Pos(op) == CHOOSE i \in DOMAIN calls : calls[i].op = op

(* The login decision has been taken and `deployment` still is the         *)
(* create-deployment response.                                             *)
PastLoginDecision ==
    /\ Succeeded("create_deployment") /\ attempts = 0
    /\ pc # "login"

(* C9: docker login is invoked if and only if a push token was supplied,   *)
(* and then completes (with exit code 0) before docker build starts;       *)
(* docker build completes before docker push starts; after a failed login  *)
(* neither build nor push is invoked.                                      *)
C9_LoginBuildPushOrder ==
    /\ \A op \in {"docker_login", "docker_build", "docker_push"} : CallCount(op) <= 1
    /\ PastLoginDecision =>
          (Called("docker_login") <=> deployment[1].push_token # None)
    /\ (Called("docker_login") /\ Called("docker_build")) =>
          /\ Succeeded("docker_login")
          /\ Pos("docker_login") < Pos("docker_build")
    /\ Called("docker_push") =>
          /\ Succeeded("docker_build")
          /\ Pos("docker_build") < Pos("docker_push")
    /\ Failed("docker_login") =>
          /\ pc = "done"
          /\ ~Called("docker_build") /\ ~Called("docker_push")

(* The MCP tool was handed a push token; login, build and push all ran. *)
C9_Witness ==
    /\ entry = "deploy_project" /\ PastLoginDecision
    /\ deployment[1].push_token # None
    /\ Succeeded("docker_login") /\ Succeeded("docker_push")

(* C10: the push token appears in nothing a run prints or returns: no JSON *)
(* message, no normal-mode line, no value of the dict the MCP tool         *)
(* returns.                                                                *)
C10_PushTokenNeverInOutput ==
    /\ \A i \in DOMAIN stdout : \A j \in DOMAIN stdout[i].messages :
          stdout[i].messages[j] \notin PushTokens
    /\ \A i \in DOMAIN ui_log : ui_log[i].m \notin PushTokens
    /\ result # None =>
          \A f \in DOMAIN result[1] \ {"deployment_revision"} :
             result[1][f] \notin PushTokens

-----------------------------------------------------------------------------
(* Python values as json.dump and json.load see them.  Every value is a    *)
(* record of one shape: a str carries its text in s; a list carries its    *)
(* elements in items; a dict carries, in insertion order, one "pair" per   *)
(* key (the key in s, the value as the single element of items).           *)
Str(s) == [t |-> "str", s |-> s, items |-> <<>>]
List(elems) == [t |-> "list", s |-> "", items |-> elems]
Pair(k, v) == [t |-> "pair", s |-> k, items |-> <<v>>]
Dict(pairs) == [t |-> "dict", s |-> "", items |-> pairs]

HasKey(d, k) == \E i \in DOMAIN d.items : d.items[i].s = k
Get(d, k) == LET i == CHOOSE j \in DOMAIN d.items : d.items[j].s = k
             IN d.items[i].items[1]

(* d[k] = v: an existing key keeps its place, a new key goes last *)
DictSet(pairs, k, v) ==
    IF \E i \in DOMAIN pairs : pairs[i].s = k
    THEN [i \in DOMAIN pairs |-> IF pairs[i].s = k THEN Pair(k, v) ELSE pairs[i]]
    ELSE Append(pairs, Pair(k, v))

(* Python's ==: lists compare in order, dicts regardless of key order. *)
RECURSIVE PyEq(_, _)
PyEq(a, b) ==
    /\ a.t = b.t
    /\ CASE a.t = "str" -> a.s = b.s
         [] a.t = "list" ->
              /\ Len(a.items) = Len(b.items)
              /\ \A i \in DOMAIN a.items : PyEq(a.items[i], b.items[i])
         [] a.t = "dict" ->
              /\ Len(a.items) = Len(b.items)
              /\ \A i \in DOMAIN a.items :
                    /\ HasKey(b, a.items[i].s)
                    /\ PyEq(a.items[i].items[1], Get(b, a.items[i].s))

(* bool(value): an empty str, list or dict is falsy *)
Truthy(v) == IF v.t = "str" THEN v.s # "" ELSE v.items # <<>>

(* The keys that occur in a spec file, in the order sort_keys puts them. *)
KeyOrder == <<"kind", "name", "resources">>

(* A JSON text is its sequence of tokens; white space (indent=2) is left   *)
(* out, since no reader of the file looks at it.                           *)
Tok(p, s) == [p |-> p, s |-> s]

RECURSIVE SortKeys(_)
SortKeys(v) ==
    CASE v.t = "str" -> v
      [] v.t = "list" -> List([i \in DOMAIN v.items |-> SortKeys(v.items[i])])
      [] v.t = "dict" ->
           LET present == SelectSeq(KeyOrder, LAMBDA k : HasKey(v, k))
           IN Dict([i \in DOMAIN present |->
                       Pair(present[i], SortKeys(Get(v, present[i])))])

RECURSIVE Encode(_), EncodeItems(_, _)
(* json.dumps(v), keys in insertion order *)
Encode(v) ==
    CASE v.t = "str" -> <<Tok("str", v.s)>>
      [] v.t = "list" -> <<Tok("[", "")>> \o EncodeItems(v.items, 1) \o <<Tok("]", "")>>
      [] v.t = "dict" -> <<Tok("{", "")>> \o EncodeItems(v.items, 1) \o <<Tok("}", "")>>
      [] v.t = "pair" -> <<Tok("str", v.s)>> \o <<Tok(":", "")>> \o Encode(v.items[1])

EncodeItems(items, i) ==
    IF i > Len(items) THEN <<>>
    ELSE Encode(items[i])
         \o (IF i < Len(items) THEN <<Tok(",", "")>> ELSE <<>>)
         \o EncodeItems(items, i + 1)

(* json.dump(data, f, indent=2) and json.dumps(data, sort_keys=True) *)
json_dump(data) == Encode(data)
json_dumps_sorted(data) == Encode(SortKeys(data))

RECURSIVE ParseValue(_, _), ParseItems(_, _, _), ParseMembers(_, _, _)
(* json.load on a well-formed text: the value that starts at token i and   *)
(* the index of the token after it; a repeated key keeps its last value.   *)
ParseValue(toks, i) ==
    CASE toks[i].p = "str" -> [val |-> Str(toks[i].s), next |-> i + 1]
      [] toks[i].p = "[" ->
           IF toks[i + 1].p = "]" THEN [val |-> List(<<>>), next |-> i + 2]
           ELSE ParseItems(toks, i + 1, <<>>)
      [] toks[i].p = "{" ->
           IF toks[i + 1].p = "}" THEN [val |-> Dict(<<>>), next |-> i + 2]
           ELSE ParseMembers(toks, i + 1, <<>>)

ParseItems(toks, i, acc) ==
    LET r == ParseValue(toks, i)
        acc2 == Append(acc, r.val)
    IN IF toks[r.next].p = ","
       THEN ParseItems(toks, r.next + 1, acc2)
       ELSE [val |-> List(acc2), next |-> r.next + 1]

ParseMembers(toks, i, acc) ==
    LET r == ParseValue(toks, i + 2)
        acc2 == DictSet(acc, toks[i].s, r.val)
    IN IF toks[r.next].p = ","
       THEN ParseMembers(toks, r.next + 1, acc2)
       ELSE [val |-> Dict(acc2), next |-> r.next + 1]

(* An empty file is not a JSON text: json.load raises JSONDecodeError. *)
Corrupt == <<>>
json_load(text) == ParseValue(text, 1).val

-----------------------------------------------------------------------------
(* Resource Provisioner: the MCP tool provision_resources (mcp.py), the    *)
(* service wait_for_provisioning (services/project.py) and the command     *)
(* `neptune resource provision` (commands/resource.py).                    *)

(* Bounds: resources per project, and polls followed per run. *)
MaxResources == 1
MaxProvisionPolls == 3

(* One resource of a GetProjectResponse; only an available bucket has its  *)
(* provider-assigned identity.                                             *)
ResourceSnapshots ==
    {[kind |-> k, name |-> "res", status |-> st,
      aws_id |-> IF k = "StorageBucket" /\ st = "Available"
                 THEN Some("bucket-id") ELSE None] :
        k \in {"StorageBucket", "Secret"}, st \in {"Pending", "Available", "Error"}}

ProjectSnapshots ==
    [provisioning_state : {"Pending", "Ready", "Error"},
     resources : UNION {[1..n -> ResourceSnapshots] : n \in 0..MaxResources}]

(* client.get_project: None on 404, HTTPError on any other failure *)
ProvisionGetProjectOutcomes ==
    {[exc |-> "none", value |-> None], [exc |-> "HTTPError", value |-> None]}
    \cup {[exc |-> "none", value |-> Some(p)] : p \in ProjectSnapshots}

(* The spec files a project directory may hold. *)
WrittenSpec ==
    json_dump(Dict(<<Pair("kind", Str("Service")), Pair("name", Str(ProjectName)),
                     Pair("resources", List(<<>>))>>))
ProvisionFiles == {None, Some(Corrupt), Some(WrittenSpec)}

(* Mutant: no resource is ever taken to be pending. *)
AnyPending_Never(p) == FALSE

(* `resource.status == "Pending"` for some resource of the snapshot *)
AnyPending(p) == \E i \in DOMAIN p.resources : p.resources[i].status = "Pending"

(* Mutant: loop A never sees the project Ready. *)
NotReady_Always(p) == TRUE

(* Loop A: `while project.provisioning_state != "Ready"` *)
NotReady(p) == p.provisioning_state # "Ready"

(* Mutant: an existing project is created again. *)
PutOp_AlwaysCreate(found) == "create_project"

(* `if client.get_project(name) is None: create_project else: update_project` *)
PutOp(found) == IF found THEN "update_project" ELSE "create_project"

(* The response, with the bucket ids extracted from the resources *)
ProvisionResponse(p) ==
    [infrastructure_status |-> "ready",
     infrastructure_resources |-> p.resources,
     storage_bucket_ids |->
        {p.resources[i].aws_id[1] :
           i \in {j \in DOMAIN p.resources :
                    /\ p.resources[j].kind = "StorageBucket"
                    /\ p.resources[j].aws_id # None}}]

(* Mutant: the validation result is ignored. *)
ValidateThen_Ignore(validation_result, go) == go

(* The tool stops at a missing file before it reads anything. *)
ValidateThen(validation_result, go) ==
    IF validation_result # None
    THEN Return(validation_result[1])
    ELSE go

(* validate_neptune_json, open/read, PutProjectRequest.model_validate_json *)
provision_Validate ==
    /\ entry = "provision_resources" /\ pc = "validate"
    /\ ValidateThen(validate_neptune_json(neptune_json # None),
          IF neptune_json = None THEN Raise("FileNotFoundError")
          ELSE IF neptune_json[1] = Corrupt THEN Raise("ValidationError")
          ELSE pc' = "lookup" /\ UNCHANGED <<result, escaped>>)
    /\ UNCHANGED <<entry, args, preflight, spec_result, assessment, deployment,
                   attempts, project, calls, seenDeployed, json_out, stdout,
                   ui_log, exit_code, neptune_json, locals>>

(* `client.get_project(project_request.name) is None` *)
provision_Lookup ==
    /\ entry = "provision_resources" /\ pc = "lookup"
    /\ \E o \in ProvisionGetProjectOutcomes :
        /\ calls' = Append(calls, Call("get_project", o.exc = "none"))
        /\ IF o.exc # "none" THEN
              /\ Raise(o.exc)
              /\ UNCHANGED locals
           ELSE
              /\ locals' = Some([found |-> o.value # None])
              /\ pc' = "put"
              /\ UNCHANGED <<result, escaped>>
    /\ UNCHANGED <<entry, args, preflight, spec_result, assessment, deployment,
                   attempts, project, seenDeployed, json_out, stdout, ui_log,
                   exit_code, neptune_json>>

(* client.create_project(project_request) or client.update_project(...) *)
provision_Put ==
    /\ entry = "provision_resources" /\ pc = "put"
    \* create_project / update_project: raise_for_status
    /\ \E exc \in {"none", "HTTPError"} :
        /\ calls' = Append(calls, Call(PutOp(locals[1].found), exc = "none"))
        /\ IF exc # "none" THEN Raise(exc)
           ELSE pc' = "fetch" /\ UNCHANGED <<result, escaped>>
    /\ UNCHANGED <<entry, args, preflight, spec_result, assessment, deployment,
                   attempts, project, seenDeployed, json_out, stdout, ui_log,
                   exit_code, neptune_json, locals>>

(* project = client.get_project(name): the fetch before a loop, or the     *)
(* fetch that ends an iteration of loop A or loop B                        *)
PollProject(next) ==
    /\ attempts < MaxProvisionPolls
    /\ \E o \in ProvisionGetProjectOutcomes :
        /\ calls' = Append(calls, Call("get_project", o.exc = "none"))
        /\ attempts' = attempts + 1
        /\ IF o.exc # "none" THEN
              /\ Raise(o.exc)
              /\ UNCHANGED project
           ELSE
              /\ project' = o.value
              /\ pc' = next
              /\ UNCHANGED <<result, escaped>>

provision_Fetch ==
    /\ entry = "provision_resources" /\ pc = "fetch"
    /\ PollProject("loopA")
    /\ UNCHANGED <<entry, args, preflight, spec_result, assessment, deployment,
                   seenDeployed, json_out, stdout, ui_log, exit_code,
                   neptune_json, locals>>

(* `while project.provisioning_state != "Ready": ...`; a project that the  *)
(* server no longer has is None, and reading its attribute raises          *)
provision_LoopA ==
    /\ entry = "provision_resources" /\ pc = "loopA"
    /\ IF project = None THEN
          /\ Raise("AttributeError")
          /\ UNCHANGED <<project, attempts, calls>>
       ELSE IF NotReady(project[1]) THEN
          PollProject("loopA")
       ELSE
          /\ pc' = "loopB"
          /\ UNCHANGED <<project, attempts, calls, result, escaped>>
    /\ UNCHANGED <<entry, args, preflight, spec_result, assessment, deployment,
                   seenDeployed, json_out, stdout, ui_log, exit_code,
                   neptune_json, locals>>

(* `while not all_provisioned: ...`, then the response *)
provision_LoopB ==
    /\ entry = "provision_resources" /\ pc = "loopB"
    /\ IF project = None THEN
          /\ Raise("AttributeError")
          /\ UNCHANGED <<project, attempts, calls>>
       ELSE IF AnyPending(project[1]) THEN
          PollProject("loopB")
       ELSE
          /\ Return(ProvisionResponse(project[1]))
          /\ UNCHANGED <<project, attempts, calls>>
    /\ UNCHANGED <<entry, args, preflight, spec_result, assessment, deployment,
                   seenDeployed, json_out, stdout, ui_log, exit_code,
                   neptune_json, locals>>

(* Mutant: the deadline is checked whether or not a timeout was given. *)
TimedOut_NoTimeoutTest(timeout, elapsed) == elapsed > 0

(* `timeout is not None and (time.time() - start_time) > timeout`, the     *)
(* deadline test of wait_for_deployment and of wait_for_provisioning.       *)
TimedOut(timeout, elapsed) == timeout # None /\ elapsed > timeout[1]

(* wait_for_provisioning: one snapshot must show both conditions *)
AllReady(p) == p.provisioning_state = "Ready" /\ ~AnyPending(p)

(* one iteration of `while True` of wait_for_provisioning *)
wait_for_provisioning_Poll ==
    /\ entry = "wait_for_provisioning" /\ pc = "wait"
    /\ attempts < MaxProvisionPolls
    /\ \E o \in ProvisionGetProjectOutcomes, elapsed \in {1, 3} :
        /\ calls' = Append(calls, Call("get_project", o.exc = "none"))
        /\ attempts' = attempts + 1
        /\ IF o.exc # "none" THEN
              /\ Raise(o.exc)
              /\ UNCHANGED project
           ELSE IF o.value = None THEN
              /\ Raise("ProjectNotFoundError")
              /\ project' = o.value
           ELSE IF AllReady(o.value[1]) THEN
              /\ Return([provisioning_state |-> o.value[1].provisioning_state,
                         resources |-> o.value[1].resources])
              /\ project' = o.value
           ELSE IF TimedOut(locals[1].timeout, elapsed) THEN
              /\ Raise("TimeoutError")
              /\ project' = o.value
           ELSE
              /\ project' = o.value
              /\ UNCHANGED <<pc, result, escaped>>
    /\ UNCHANGED <<entry, args, preflight, spec_result, assessment, deployment,
                   seenDeployed, json_out, stdout, ui_log, exit_code,
                   neptune_json, locals>>

(* services.deploy.provision_resources as the command sees it: the         *)
(* spec-not-found condition when the directory has no neptune.json, and    *)
(* otherwise a result or some other exception.                             *)
ServiceProvisionOutcomes(file) ==
    IF file = None THEN {"NeptuneJsonNotFoundError"}
    ELSE {"none", "Exception"}

(* The command `neptune resource provision`. *)
resource_provision ==
    /\ entry = "resource_provision" /\ pc = "provision"
    /\ \E exc \in ServiceProvisionOutcomes(neptune_json) :
        /\ calls' = Append(calls, Call("provision_resources", exc = "none"))
        /\ IF exc = "NeptuneJsonNotFoundError" THEN
              /\ stdout' = IF args.output_mode = "json"
                           THEN Append(stdout,
                                  [ok |-> FALSE, error |-> "neptune.json not found",
                                   next_action_command |-> "neptune generate spec"])
                           ELSE stdout
              /\ ui_log' = ui_log \o Ui("header", "Provision Resources")
                             \o Ui("error", "neptune.json not found")
                             \o Ui("info", "Run 'neptune generate spec' to create it first.")
              /\ exit_code' = Some(ExitOfCtxExit)
           ELSE IF exc # "none" THEN
              /\ stdout' = IF args.output_mode = "json"
                           THEN Append(stdout, [ok |-> FALSE, error |-> exc])
                           ELSE stdout
              /\ ui_log' = ui_log \o Ui("header", "Provision Resources")
                             \o Ui("error", "Failed to provision resources: " \o exc)
              /\ exit_code' = Some(ExitOfCtxExit)
           ELSE
              /\ stdout' = IF args.output_mode = "json"
                           THEN Append(stdout,
                                  [ok |-> TRUE, next_action_command |-> "neptune deploy"])
                           ELSE stdout
              /\ ui_log' = ui_log \o Ui("header", "Provision Resources")
                             \o Ui("success", "Resources provisioned for '"
                                              \o ProjectName \o "'")
                             \o Ui("info", "Run 'neptune deploy' to deploy your application.")
              /\ exit_code' = Some(ExitOfReturn)
    /\ pc' = "done"
    /\ UNCHANGED <<entry, args, preflight, spec_result, assessment, deployment,
                   attempts, project, seenDeployed, json_out, escaped, result,
                   neptune_json, locals>>

ProvisionInit ==
    /\ entry \in {"provision_resources", "wait_for_provisioning", "resource_provision"}
    /\ pc = CASE entry = "provision_resources" -> "validate"
              [] entry = "wait_for_provisioning" -> "wait"
              [] entry = "resource_provision" -> "provision"
    /\ args \in IF entry = "resource_provision"
                THEN {DefaultArgs, [DefaultArgs EXCEPT !.output_mode = "json"]}
                ELSE {DefaultArgs}
    /\ neptune_json \in IF entry = "wait_for_provisioning"
                        THEN {Some(WrittenSpec)} ELSE ProvisionFiles
    /\ preflight = None
    /\ spec_result = None
    /\ assessment = None
    /\ deployment = None
    /\ attempts = 0
    /\ project = None
    /\ calls = <<>>
    /\ seenDeployed = FALSE
    /\ json_out = None
    /\ stdout = <<>>
    /\ ui_log = <<>>
    /\ exit_code = None
    /\ escaped = None
    /\ result = None
    /\ locals \in IF entry = "wait_for_provisioning"
                 THEN {Some([timeout |-> None]), Some([timeout |-> Some(2)])}
                 ELSE {None}

ProvisionNext ==
    \/ provision_Validate
    \/ provision_Lookup
    \/ provision_Put
    \/ provision_Fetch
    \/ provision_LoopA
    \/ provision_LoopB
    \/ wait_for_provisioning_Poll
    \/ resource_provision

ProvisionSpec == ProvisionInit /\ [][ProvisionNext]_vars

-----------------------------------------------------------------------------
(* Claims about the Resource Provisioner. *)
IsProvisionTool == entry = "provision_resources"
IsPut(c) == c.op \in {"create_project", "update_project"}
PutCount == CallCount("create_project") + CallCount("update_project")

(* The run returned a success value, not an error dict. *)
ProvisionSucceeded ==
    /\ entry \in {"provision_resources", "wait_for_provisioning"}
    /\ result # None
    /\ "status" \notin DOMAIN result[1]

(* C11: in one provision_resources call at most one of create_project and  *)
(* update_project is invoked, at most once; once the tool has got past     *)
(* that step exactly one of them has been invoked exactly once, right      *)
(* after the first get_project, and it is create_project if and only if    *)
(* that get_project returned None; every later (polling) get_project comes *)
(* after it.                                                               *)
C11_CreateXorUpdateBeforePolling ==
    IsProvisionTool =>
       /\ PutCount <= 1
       /\ (pc \in {"fetch", "loopA", "loopB"} \/ ProvisionSucceeded) => PutCount = 1
       /\ \A i \in DOMAIN calls :
             /\ IsPut(calls[i]) =>
                   /\ i = 2
                   /\ calls[1] = Call("get_project", TRUE)
                   /\ (calls[i].op = "create_project") <=> ~locals[1].found
             /\ (calls[i].op = "get_project" /\ i > 1) =>
                   \E j \in 1..(i - 1) : IsPut(calls[j]) /\ calls[j].ok

C11_Witness ==
    /\ IsProvisionTool
    /\ ProvisionSucceeded
    /\ Succeeded("update_project")
    /\ CallCount("get_project") >= 3

(* C12: whenever the provisioner returns success, the last project         *)
(* snapshot it fetched has provisioning_state Ready and no resource whose  *)
(* status is Pending.                                                      *)
C12_SuccessMeansReadySnapshot ==
    ProvisionSucceeded => project # None /\ AllReady(project[1])

(* C13: with no neptune.json the tool returns its not-found error and the  *)
(* command ends with the not-found failure, and no get_project,            *)
(* create_project or update_project call is made.                          *)
C13_NoSpecFileNoApiCall ==
    (entry \in {"provision_resources", "resource_provision"} /\ neptune_json = None) =>
       /\ ~Called("get_project") /\ ~Called("create_project") /\ ~Called("update_project")
       /\ (IsProvisionTool /\ pc = "done") =>
             /\ escaped = None
             /\ result = Some([status |-> "error",
                               message |-> "neptune.json not found",
                               next_step |-> "make sure a 'neptune.json' file exists"])
       /\ (entry = "resource_provision" /\ pc = "done") =>
             /\ exit_code = Some(1)
             /\ IF IsJson
                THEN /\ Len(stdout) = 1
                     /\ stdout[1].ok = FALSE
                     /\ stdout[1].error = "neptune.json not found"
                ELSE \E i \in DOMAIN ui_log :
                        ui_log[i] = [k |-> "error", m |-> "neptune.json not found"]

C13_Witness ==
    /\ IsProvisionTool
    /\ neptune_json = None
    /\ pc = "done"
    /\ result # None

-----------------------------------------------------------------------------
(* Lint Gate as a function of its inputs: assess_lint_gate (ui.py) applied *)
(* once to a report and the two override flags.                            *)

(* AiLintReport with everything a gate could look at: the numbers of       *)
(* errors, warnings and suppressed findings, config.block_on_warnings and  *)
(* the report's own summary.blocking.                                      *)
GateReports ==
    [errors : 0..MaxFindings, warnings : 0..MaxFindings,
     suppressed : 0..MaxFindings, block_on_warnings : BOOLEAN,
     summary_blocking : BOOLEAN]

(* the call `assess_lint_gate(report, allow_ai_errors, allow_ai_warnings)` *)
assess_lint_gate_Call ==
    /\ entry = "assess_lint_gate" /\ pc = "call"
    /\ assessment' = Some(assess_lint_gate(locals[1].report,
                                           args.allow_ai_errors,
                                           args.allow_ai_warnings))
    /\ pc' = "done"
    /\ UNCHANGED <<entry, args, preflight, spec_result, deployment, attempts,
                   project, calls, seenDeployed, json_out, stdout, ui_log,
                   exit_code, escaped, result, neptune_json, locals>>

LintGateInit ==
    /\ entry = "assess_lint_gate"
    /\ pc = "call"
    /\ args \in {a \in Args : a.output_mode = "normal" /\ ~a.skip_spec
                              /\ ~a.skip_lint /\ ~a.yes}
    /\ locals \in {Some([report |-> r]) : r \in GateReports}
    /\ preflight = None
    /\ spec_result = None
    /\ assessment = None
    /\ deployment = None
    /\ attempts = 0
    /\ project = None
    /\ calls = <<>>
    /\ seenDeployed = FALSE
    /\ json_out = None
    /\ stdout = <<>>
    /\ ui_log = <<>>
    /\ exit_code = None
    /\ escaped = None
    /\ result = None
    /\ neptune_json = None

LintGateSpec == LintGateInit /\ [][assess_lint_gate_Call]_vars

(* C14: the gate blocks if and only if (there is an error and allow_errors *)
(* is false) or (block_on_warnings is set, there is a warning and          *)
(* allow_warnings is false), whatever the suppressed findings and the      *)
(* report's summary.blocking are; a report with no error and no warning    *)
(* never blocks; and blocking is true exactly when reasons is non-empty.   *)
C14_GateBlocksExactlyOnUnwaivedFindings ==
    (entry = "assess_lint_gate" /\ assessment # None) =>
       LET report == locals[1].report
           gate == assessment[1]
       IN /\ gate.blocking <=>
                \/ report.errors > 0 /\ ~args.allow_ai_errors
                \/ /\ report.block_on_warnings
                   /\ report.warnings > 0
                   /\ ~args.allow_ai_warnings
          /\ (report.errors = 0 /\ report.warnings = 0) => ~gate.blocking
          /\ gate.blocking <=> (gate.reasons # <<>>)

C14_Witness ==
    /\ entry = "assess_lint_gate"
    /\ assessment # None
    /\ ~assessment[1].blocking
    /\ locals[1].report.summary_blocking
    /\ locals[1].report.suppressed > 0
    /\ locals[1].report.warnings > 0
    /\ ~locals[1].report.block_on_warnings

(* C15: with allow_errors and allow_warnings both true the gate returns    *)
(* blocking = false and no reasons, for every report.                      *)
C15_FullOverrideClearsGate ==
    (/\ entry = "assess_lint_gate"
     /\ assessment # None
     /\ args.allow_ai_errors
     /\ args.allow_ai_warnings) =>
       /\ ~assessment[1].blocking
       /\ assessment[1].reasons = <<>>

C15_Witness ==
    /\ entry = "assess_lint_gate"
    /\ assessment # None
    /\ args.allow_ai_errors /\ args.allow_ai_warnings
    /\ locals[1].report.errors > 0
    /\ locals[1].report.warnings > 0
    /\ locals[1].report.block_on_warnings
    /\ ~assessment[1].blocking

-----------------------------------------------------------------------------
(* Spec Resolver: generate_spec (services/generate.py) called repeatedly   *)
(* on one project directory with one project_name argument and one         *)
(* AI-service response.                                                    *)

(* Bound: calls of generate_spec followed per run. *)
MaxGenerateCalls == 2

DirName == "dir"

(* The platform_spec of a GenerateResponse, and its start command. *)
AiResponses ==
    [name : {"", "ai-app"},
     resources : UNION {[1..n -> [kind : {"ObjectStorageBucket", "Secret"},
                                  name : {"r"}]] : n \in 0..MaxResources},
     start_command : {None, Some("uvicorn")}]

(* Mutant: a kind outside the table is dropped. *)
MappedKind_TableOnly(kind) ==
    IF kind = "ObjectStorageBucket" THEN "StorageBucket"
    ELSE IF kind \in {"Database", "StorageBucket", "Secret"} THEN kind ELSE ""

(* resource_kind_map.get(kind, kind) *)
MappedKind(kind) == IF kind = "ObjectStorageBucket" THEN "StorageBucket" ELSE kind

(* ai_spec_to_platform_request: `project_name or ai_spec.get("name", "")` *)
ai_spec_to_platform_request(ai_spec, project_name) ==
    Dict(<<Pair("kind", Str("Service")),
           Pair("name", Str(IF project_name # "" THEN project_name ELSE ai_spec.name)),
           Pair("resources",
                List([i \in DOMAIN ai_spec.resources |->
                        Dict(<<Pair("kind", Str(MappedKind(ai_spec.resources[i].kind))),
                               Pair("name", Str(ai_spec.resources[i].name))>>)]))>>)

(* What neptune.json may hold before the first call: nothing, an empty     *)
(* file, `{}`, or a spec someone wrote, its keys in either order.          *)
SpecFiles ==
    {None, Some(Corrupt), Some(json_dump(Dict(<<>>)))}
    \cup {Some(json_dump(Dict(<<Pair("kind", Str("Service")), Pair("name", Str(n)),
                                Pair("resources", List(<<>>))>>))) :
             n \in {"app", DirName}}
    \cup {Some(json_dump(Dict(<<Pair("resources", List(<<>>)), Pair("name", Str(n)),
                                Pair("kind", Str("Service"))>>))) :
             n \in {"app", "ai-app"}}

(* resolve_project_name: the name in neptune.json, else the one in         *)
(* .neptune/project_name, else the directory's name; generate_spec falls   *)
(* back to the directory's name when this raises.                          *)
resolve_project_name(file, meta_name) ==
    IF file # None /\ file[1] = Corrupt THEN DirName
    ELSE IF file # None /\ Truthy(json_load(file[1])) /\ HasKey(json_load(file[1]), "name")
         THEN Get(json_load(file[1]), "name").s
    ELSE IF meta_name # None THEN meta_name[1]
    ELSE DirName

(* Mutant: the normalized text is compared with the dict itself. *)
SpecChanged_TextAgainstDict(existing, new_spec) == TRUE

(* `changed = existing_normalized != new_normalized` *)
SpecChanged(existing, new_spec) ==
    json_dumps_sorted(existing) # json_dumps_sorted(new_spec)

GenerateCall(ok, changed, wrote, after) ==
    [op |-> "generate_spec", ok |-> ok, changed |-> changed, wrote |-> wrote,
     after |-> after]

(* one call of generate_spec *)
generate_spec ==
    /\ entry = "generate_spec" /\ pc = "idle"
    /\ attempts < MaxGenerateCalls
    /\ attempts' = attempts + 1
    /\ \E exc \in {"none", "SpecGenerationError"} :
        LET project_name == IF locals[1].project_name # None
                            THEN locals[1].project_name[1]
                            ELSE resolve_project_name(neptune_json, locals[1].meta_name)
            gen_response == locals[1].response
            new_spec == ai_spec_to_platform_request(gen_response, project_name)
        IN IF exc # "none" THEN
              \* create_project_archive or client.generate raised
              /\ escaped' = Some(exc)
              /\ result' = None
              /\ calls' = Append(calls, GenerateCall(FALSE, FALSE, FALSE, neptune_json))
              /\ UNCHANGED <<neptune_json, locals>>
           ELSE IF neptune_json # None /\ neptune_json[1] = Corrupt THEN
              \* read_neptune_json: json.load raises
              /\ escaped' = Some("JSONDecodeError")
              /\ result' = None
              /\ calls' = Append(calls, GenerateCall(FALSE, FALSE, FALSE, neptune_json))
              /\ UNCHANGED <<neptune_json, locals>>
           ELSE
              LET changed ==
                     IF neptune_json # None /\ Truthy(json_load(neptune_json[1]))
                     THEN SpecChanged(json_load(neptune_json[1]), new_spec)
                     ELSE TRUE
                  written == Some(json_dump(new_spec))
              IN /\ neptune_json' = written
                 /\ locals' = IF gen_response.start_command # None
                              THEN Some([locals[1] EXCEPT
                                           !.start_file = gen_response.start_command])
                              ELSE locals
                 /\ result' = Some([spec |-> new_spec,
                                    start_command |-> gen_response.start_command,
                                    changed |-> changed])
                 /\ escaped' = None
                 /\ calls' = Append(calls, GenerateCall(TRUE, changed, TRUE, written))
    /\ UNCHANGED <<entry, pc, args, preflight, spec_result, assessment, deployment,
                   project, seenDeployed, json_out, stdout, ui_log, exit_code>>

GenerateInit ==
    /\ entry = "generate_spec"
    /\ pc = "idle"
    /\ args = DefaultArgs
    /\ neptune_json \in SpecFiles
    /\ locals \in {Some([project_name |-> n, meta_name |-> m, response |-> r,
                         start_file |-> None]) :
                     n \in {None, Some(""), Some("app")},
                     m \in {None, Some("meta")},
                     r \in AiResponses}
    /\ preflight = None
    /\ spec_result = None
    /\ assessment = None
    /\ deployment = None
    /\ attempts = 0
    /\ project = None
    /\ calls = <<>>
    /\ seenDeployed = FALSE
    /\ json_out = None
    /\ stdout = <<>>
    /\ ui_log = <<>>
    /\ exit_code = None
    /\ escaped = None
    /\ result = None

GenerateSpec == GenerateInit /\ [][generate_spec]_vars

(* C16: when generate_spec has returned once, every later call that        *)
(* returns (same directory, same project_name argument, same AI response)  *)
(* reports changed = false and leaves neptune.json as the earlier call     *)
(* left it.                                                                *)
C16_SecondGenerateReportsUnchanged ==
    entry = "generate_spec" =>
       \A i, j \in DOMAIN calls :
          (i < j /\ calls[i].ok /\ calls[j].ok) =>
             /\ ~calls[j].changed
             /\ calls[j].after = calls[i].after

C16_Witness ==
    /\ entry = "generate_spec"
    /\ Len(calls) = 2
    /\ calls[1].ok /\ calls[1].changed
    /\ calls[2].ok /\ ~calls[2].changed
    /\ locals[1].project_name = None
    /\ Len(locals[1].response.resources) > 0

(* C17: a call of generate_spec that finds the generated spec equal to the *)
(* one on disk (changed = false) does not write neptune.json.              *)
C17_UnchangedSpecIsNotWritten ==
    entry = "generate_spec" =>
       \A i \in DOMAIN calls :
          (calls[i].ok /\ ~calls[i].changed) => ~calls[i].wrote

-----------------------------------------------------------------------------
(* Archive Builder: create_project_archive (utils.py), one loop iteration  *)
(* per step.                                                               *)

(* Bound: files selected for one archive. *)
MaxFiles == 2

MAX_ARCHIVE_SIZE == 200 * 1024 * 1024

(* A selected path: its st_size, and whether it still is a regular file. *)
SelectedFiles ==
    UNION {[1..n -> [size : {1, 100 * 1024 * 1024, MAX_ARCHIVE_SIZE,
                             MAX_ARCHIVE_SIZE + 1},
                     is_file : BOOLEAN]] : n \in 0..MaxFiles}

(* Mutant: each file is held against the cap on its own. *)
OverLimit_PerFile(total_size, file_size, max_size) == file_size > max_size

(* `total_size += file_size; if total_size > max_size: raise ValueError` *)
OverLimit(total_size, file_size, max_size) == total_size > max_size

(* one iteration of `for file_path in files` *)
create_project_archive_Add ==
    /\ entry = "create_project_archive" /\ pc = "add"
    /\ LET l == locals[1]
           f == l.files[l.i]
           total_size == l.total_size + f.size
       IN /\ l.i <= Len(l.files)
          /\ IF ~f.is_file THEN
                /\ locals' = Some([l EXCEPT !.i = l.i + 1])
                /\ UNCHANGED <<pc, escaped>>
             ELSE IF OverLimit(total_size, f.size, MAX_ARCHIVE_SIZE) THEN
                /\ locals' = Some([l EXCEPT !.total_size = total_size])
                /\ escaped' = Some("ValueError")
                /\ pc' = "done"
             ELSE
                /\ locals' = Some([l EXCEPT !.i = l.i + 1,
                                            !.total_size = total_size,
                                            !.buffer = Append(l.buffer, l.i)])
                /\ UNCHANGED <<pc, escaped>>
    /\ UNCHANGED <<entry, args, preflight, spec_result, assessment, deployment,
                   attempts, project, calls, seenDeployed, json_out, stdout,
                   ui_log, exit_code, result, neptune_json>>

(* after the loop: the lint config file that was not among the selected    *)
(* files is added, and `return buffer.getvalue()`                          *)
create_project_archive_Return ==
    /\ entry = "create_project_archive" /\ pc = "add"
    /\ locals[1].i > Len(locals[1].files)
    /\ result' = Some(IF locals[1].lint_config
                      THEN Append(locals[1].buffer, 0)
                      ELSE locals[1].buffer)
    /\ pc' = "done"
    /\ UNCHANGED <<entry, args, preflight, spec_result, assessment, deployment,
                   attempts, project, calls, seenDeployed, json_out, stdout,
                   ui_log, exit_code, escaped, neptune_json, locals>>

ArchiveInit ==
    /\ entry = "create_project_archive"
    /\ pc = "add"
    /\ args = DefaultArgs
    /\ locals \in {Some([files |-> fs, lint_config |-> c, i |-> 1,
                         total_size |-> 0, buffer |-> <<>>]) :
                     fs \in SelectedFiles, c \in BOOLEAN}
    /\ preflight = None
    /\ spec_result = None
    /\ assessment = None
    /\ deployment = None
    /\ attempts = 0
    /\ project = None
    /\ calls = <<>>
    /\ seenDeployed = FALSE
    /\ json_out = None
    /\ stdout = <<>>
    /\ ui_log = <<>>
    /\ exit_code = None
    /\ escaped = None
    /\ result = None
    /\ neptune_json = None

ArchiveSpec ==
    ArchiveInit /\ [][create_project_archive_Add \/ create_project_archive_Return]_vars

(* The sizes of the regular files among the first k selected files. *)
RECURSIVE PrefixSize(_, _)
PrefixSize(files, k) ==
    IF k = 0 THEN 0
    ELSE PrefixSize(files, k - 1) + (IF files[k].is_file THEN files[k].size ELSE 0)

ExceedsCap(files) ==
    \E k \in DOMAIN files : PrefixSize(files, k) > MAX_ARCHIVE_SIZE

(* C18: if the running total of the sizes of the files added in order      *)
(* exceeds the cap (a single file larger than the cap included), the       *)
(* function ends with the size-limit ValueError and returns no bytes; and  *)
(* an archive that is returned holds every regular file selected.          *)
C18_OverCapRaisesWithoutArchive ==
    (entry = "create_project_archive" /\ pc = "done") =>
       LET files == locals[1].files
       IN /\ ExceedsCap(files) => (escaped = Some("ValueError") /\ result = None)
          /\ result # None =>
                \A k \in DOMAIN files :
                   files[k].is_file => \E b \in DOMAIN result[1] : result[1][b] = k

C18_Witness ==
    /\ entry = "create_project_archive"
    /\ pc = "done"
    /\ escaped = Some("ValueError")
    /\ result = None
    /\ locals[1].buffer # <<>>
    /\ \A k \in DOMAIN locals[1].files :
          locals[1].files[k].size <= MAX_ARCHIVE_SIZE

-----------------------------------------------------------------------------
(* The spec file: write_neptune_json and read_neptune_json (utils.py)      *)
(* applied in any order to one directory.                                  *)

(* Bound: file operations followed per run. *)
MaxFileOps == 3

(* A spec value: kind, name and a list of {kind, name} resources, the keys *)
(* of the object and of each resource in either order.                     *)
Keyed(k1, v1, k2, v2, swapped) ==
    IF swapped THEN <<Pair(k2, v2), Pair(k1, v1)>> ELSE <<Pair(k1, v1), Pair(k2, v2)>>
SpecResources ==
    UNION {[1..n -> {Dict(Keyed("kind", Str(k), "name", Str("r"), sw)) :
                       k \in {"StorageBucket", "Secret"}, sw \in BOOLEAN}] :
             n \in 0..MaxResources}
SpecValues ==
    {Dict(IF sw
          THEN <<Pair("resources", List(rs)), Pair("name", Str(n)),
                 Pair("kind", Str("Service"))>>
          ELSE <<Pair("kind", Str("Service")), Pair("name", Str(n)),
                 Pair("resources", List(rs))>>) :
       n \in {"", "app"}, rs \in SpecResources, sw \in BOOLEAN}

(* Mutant: the file is looked for under another name. *)
read_neptune_json_OtherName(file) == None

(* `if not neptune_json.exists(): return None`, else json.load(f) *)
read_neptune_json(file) ==
    IF file = None THEN None ELSE Some(json_load(file[1]))

(* json.dump(data, f, indent=2) into neptune.json *)
write_neptune_json(data) == Some(json_dump(data))

write_neptune_json_Call ==
    /\ entry = "neptune_json" /\ Len(calls) < MaxFileOps
    /\ neptune_json' = write_neptune_json(locals[1].data)
    /\ calls' = Append(calls, Call("write_neptune_json", TRUE))
    /\ UNCHANGED <<entry, pc, args, preflight, spec_result, assessment, deployment,
                   attempts, project, seenDeployed, json_out, stdout, ui_log,
                   exit_code, escaped, result, locals>>

read_neptune_json_Call ==
    /\ entry = "neptune_json" /\ Len(calls) < MaxFileOps
    /\ IF neptune_json # None /\ neptune_json[1] = Corrupt THEN
          /\ escaped' = Some("JSONDecodeError")
          /\ result' = None
          /\ calls' = Append(calls, Call("read_neptune_json", FALSE))
       ELSE
          /\ result' = Some(read_neptune_json(neptune_json))
          /\ escaped' = None
          /\ calls' = Append(calls, Call("read_neptune_json", TRUE))
    /\ UNCHANGED <<entry, pc, args, preflight, spec_result, assessment, deployment,
                   attempts, project, seenDeployed, json_out, stdout, ui_log,
                   exit_code, neptune_json, locals>>

NeptuneJsonInit ==
    /\ entry = "neptune_json"
    /\ pc = "idle"
    /\ args = DefaultArgs
    /\ neptune_json \in ProvisionFiles
    /\ locals \in {Some([data |-> d]) : d \in SpecValues}
    /\ preflight = None
    /\ spec_result = None
    /\ assessment = None
    /\ deployment = None
    /\ attempts = 0
    /\ project = None
    /\ calls = <<>>
    /\ seenDeployed = FALSE
    /\ json_out = None
    /\ stdout = <<>>
    /\ ui_log = <<>>
    /\ exit_code = None
    /\ escaped = None
    /\ result = None

NeptuneJsonSpec ==
    NeptuneJsonInit /\ [][write_neptune_json_Call \/ read_neptune_json_Call]_vars

LastCall == calls[Len(calls)]

(* C19: a read_neptune_json that follows write_neptune_json(spec) on the   *)
(* same directory returns a spec equal to the one written, whatever the    *)
(* order of its keys (the key-sorted forms agree as well); and             *)
(* read_neptune_json returns None when the directory has no neptune.json.  *)
C19_WriteThenReadRoundTrip ==
    (entry = "neptune_json" /\ calls # <<>> /\ LastCall.op = "read_neptune_json") =>
       /\ Called("write_neptune_json") =>
             /\ LastCall.ok
             /\ result[1] # None
             /\ PyEq(result[1][1], locals[1].data)
             /\ json_dumps_sorted(result[1][1]) = json_dumps_sorted(locals[1].data)
       /\ neptune_json = None => (LastCall.ok /\ result = Some(None))

C19_Witness ==
    /\ entry = "neptune_json"
    /\ calls = <<Call("write_neptune_json", TRUE), Call("read_neptune_json", TRUE)>>
    /\ result[1] # None
    /\ HasKey(result[1][1], "resources")
    /\ Get(result[1][1], "resources").items # <<>>
    /\ locals[1].data.items[1].s = "resources"

-----------------------------------------------------------------------------
(* Platform API client (client.py): one method called once, the server     *)
(* answering with one HTTP status.                                         *)
PlatformMethods ==
    {"get_projects", "get_project", "create_project", "update_project",
     "delete_project", "create_deployment", "get_deployment", "get_logs",
     "set_secret_value", "list_bucket_keys", "get_bucket_object",
     "get_database_connection_info", "get_project_schema", "get_current_user",
     "get_registry_auth"}

(* response.raise_for_status(): HTTPError for a 4xx or 5xx status *)
raise_for_status(status_code) ==
    IF status_code >= 400 /\ status_code < 600 THEN "HTTPError" ELSE "none"

Outcome(exc, value) == [exc |-> exc, value |-> value]

(* What the method does with the response: the exception it raises        *)
(* ("none" if it returns) and the value it returns.                        *)
ClientCall(method, status_code, body) ==
    CASE method = "get_projects" ->
           \* 404 is an empty list, and `except Exception: return []`
           \* turns the HTTPError of raise_for_status into one as well
           IF status_code = 404 THEN Outcome("none", "empty list")
           ELSE IF raise_for_status(status_code) # "none"
                THEN Outcome("none", "empty list")
           ELSE IF body = "other" THEN Outcome("none", "empty list")
           ELSE Outcome("none", "projects")
      [] method = "get_project" ->
           IF status_code = 404 THEN Outcome("none", "None")
           ELSE IF raise_for_status(status_code) # "none"
                THEN Outcome(raise_for_status(status_code), "")
           ELSE Outcome("none", "project")
      [] method = "set_secret_value" ->
           \* requests.put(...) and nothing else
           Outcome("none", "None")
      [] OTHER ->
           IF raise_for_status(status_code) # "none"
           THEN Outcome(raise_for_status(status_code), "")
           ELSE Outcome("none", "response")

Client_Call ==
    /\ entry = "client" /\ pc = "call"
    /\ LET o == ClientCall(locals[1].method, locals[1].status_code, locals[1].body)
       IN /\ calls' = Append(calls, Call(locals[1].method, o.exc = "none"))
          /\ escaped' = IF o.exc # "none" THEN Some(o.exc) ELSE None
          /\ result' = IF o.exc = "none" THEN Some(o.value) ELSE None
    /\ pc' = "done"
    /\ UNCHANGED <<entry, args, preflight, spec_result, assessment, deployment,
                   attempts, project, seenDeployed, json_out, stdout, ui_log,
                   exit_code, neptune_json, locals>>

ClientInit ==
    /\ entry = "client"
    /\ pc = "call"
    /\ args = DefaultArgs
    /\ locals \in {Some([method |-> m, status_code |-> c, body |-> b]) :
                     m \in PlatformMethods,
                     c \in {200, 401, 403, 404, 500},
                     \* the JSON body of a 2xx answer to GET /projects
                     b \in {"array", "object_with_projects", "other"}}
    /\ preflight = None
    /\ spec_result = None
    /\ assessment = None
    /\ deployment = None
    /\ attempts = 0
    /\ project = None
    /\ calls = <<>>
    /\ seenDeployed = FALSE
    /\ json_out = None
    /\ stdout = <<>>
    /\ ui_log = <<>>
    /\ exit_code = None
    /\ escaped = None
    /\ result = None
    /\ neptune_json = None

ClientSpec == ClientInit /\ [][Client_Call]_vars

(* C20: every client method raises on a non-2xx response, except that      *)
(* get_project returns None on 404 and get_projects returns an empty list  *)
(* on 404.                                                                 *)
C20_Non2xxSurfacesAsError ==
    (entry = "client" /\ pc = "done") =>
       LET method == locals[1].method
           status_code == locals[1].status_code
       IN IF status_code \in 200..299 THEN escaped = None
          ELSE IF method = "get_project" /\ status_code = 404
               THEN result = Some("None")
          ELSE IF method = "get_projects" /\ status_code = 404
               THEN result = Some("empty list")
          ELSE escaped # None

-----------------------------------------------------------------------------
(* Waiting for a deployment: services.project.wait_for_deployment, the     *)
(* command `neptune wait` that calls it, and, for comparison, the polls of *)
(* the deploy command and of the deploy_project tool after the image push. *)

(* The model follows the unbounded `while True` loop for MaxWaitPolls polls. *)
MaxWaitPolls == 3

(* `poll_interval: float = 2.0` *)
poll_interval == 2

(* client.get_project as the wait loop sees it: an HTTP error, None on    *)
(* 404, or a project whose running status is absent, still starting,      *)
(* Running, Stopped or Error.                                              *)
WaitGetProjectOutcomes ==
    GetProjectOutcomes
    \cup {[exc |-> "none",
           value |-> Some([provisioning_state |-> "Ready",
                           running_status |-> Some([current |-> c, public_ip |-> None])])] :
          c \in {"Starting", "Error"}}

(* Mutant: the option is passed on as it is. *)
TimeoutArg_Float(timeout) == Some(timeout)

(* `timeout=float(timeout) if timeout else None` *)
TimeoutArg(timeout) == IF timeout # 0 THEN Some(timeout) ELSE None

(* The start of wait_command: header, project name, the two step lines.   *)
(* locals[1].option is the value of --timeout.                             *)
wait_command_Start ==
    /\ entry = "wait_command" /\ pc = "start"
    /\ \E resolved \in BOOLEAN :
        IF ~resolved THEN
           /\ stdout' = IF args.output_mode = "json"
                        THEN Append(stdout,
                                    [ok |-> FALSE,
                                     error |-> "Could not determine project name",
                                     next_action_command |-> "neptune wait --project-name <name>"])
                        ELSE stdout
           /\ ui_log' = ui_log \o Ui("header", "Wait for Deployment")
                               \o Ui("error", "Could not determine project name")
                               \o Ui("info", "Run from a project directory or use --project-name")
           /\ exit_code' = Some(ExitOfCtxExit)
           /\ pc' = "done"
           /\ UNCHANGED locals
        ELSE
           /\ ui_log' = ui_log \o Ui("header", "Wait for Deployment")
                               \o Ui("step", "Waiting for '" \o ProjectName
                                             \o "' to reach Running state...")
                               \o Ui("step", "(timeout: " \o ToString(locals[1].option) \o "s)")
           /\ locals' = Some([locals[1] EXCEPT !.timeout = TimeoutArg(locals[1].option)])
           /\ pc' = "wait"
           /\ UNCHANGED <<stdout, exit_code>>
    /\ UNCHANGED <<entry, args, preflight, spec_result, assessment, deployment,
                   attempts, project, calls, seenDeployed, json_out, escaped,
                   result, neptune_json>>

(* What wait_command does with the outcome of wait_for_deployment: one    *)
(* handler per exception, each ending in ctx.exit(1), or the report of    *)
(* the status returned.                                                    *)
wait_command_Handle(exc, p, running_status) ==
    LET current == IF running_status = None THEN "None" ELSE running_status[1]
        failure(error, state, next_action_command, lines) ==
            /\ stdout' = IF args.output_mode = "json"
                         THEN Append(stdout,
                                     [ok |-> FALSE, error |-> error, state |-> state,
                                      next_action_command |-> next_action_command])
                         ELSE stdout
            /\ ui_log' = ui_log \o lines
            /\ exit_code' = Some(ExitOfCtxExit)
    IN /\ pc' = "done"
       /\ UNCHANGED <<result, escaped>>
       /\ CASE exc = "ProjectNotFoundError" ->
                 failure("Project '" \o ProjectName \o "' not found", None,
                         Some("neptune deploy"),
                         Ui("error", "Project '" \o ProjectName \o "' not found")
                         \o Ui("info", "Make sure the project exists. Run 'neptune deploy' first."))
            [] exc = "DeploymentError" ->
                 failure("Deployment failed: service is in '" \o current \o "' state",
                         Some(current), Some("neptune logs"),
                         Ui("error", "Deployment failed: service is in '" \o current \o "' state")
                         \o Ui("info", "Check logs with 'neptune logs' for more details."))
            [] exc = "TimeoutError" ->
                 failure("Timeout waiting for deployment of '" \o ProjectName
                         \o "' (current state: " \o current \o ")",
                         None, Some("neptune wait --timeout <seconds>"),
                         Ui("warn", "Timeout waiting for deployment of '" \o ProjectName
                                    \o "' (current state: " \o current \o ")")
                         \o Ui("info", "The deployment is still in progress. Run 'neptune wait' again or increase --timeout."))
            [] exc = "none" ->
                 /\ stdout' = IF args.output_mode = "json"
                              THEN Append(stdout,
                                          [ok |-> TRUE,
                                           provisioning_state |-> p.provisioning_state,
                                           running_status |-> p.running_status,
                                           next_action_command |-> "neptune status"])
                              ELSE stdout
                 /\ ui_log' = ui_log \o Ui("success", "Deployment complete!")
                                     \o (IF p.provisioning_state = "Ready"
                                         THEN Ui("success", "Infrastructure: " \o p.provisioning_state)
                                         ELSE Ui("step", "Infrastructure: " \o p.provisioning_state))
                                     \o Ui("success", "Service: " \o current)
                                     \o (IF p.running_status[1].public_ip # None
                                         THEN Ui("step", "URL: http://"
                                                         \o p.running_status[1].public_ip[1])
                                         ELSE <<>>)
                 /\ exit_code' = Some(ExitOfReturn)
            [] OTHER ->
                 failure(exc, None, None, Ui("error", "Failed: " \o exc))

(* One iteration of the `while True` loop of wait_for_deployment.  The    *)
(* lookup takes d ticks of the clock, the sleep poll_interval ticks;      *)
(* locals[1].elapsed is time.time() - start_time as the deadline test     *)
(* reads it.                                                               *)
wait_for_deployment_Poll ==
    /\ entry \in {"wait_for_deployment", "wait_command"} /\ pc = "wait"
    /\ attempts < MaxWaitPolls
    /\ \E o \in WaitGetProjectOutcomes, d \in {0, 1} :
        LET elapsed == locals[1].now + d
            running_status ==
                IF o.exc = "none" /\ o.value # None /\ o.value[1].running_status # None
                THEN Some(o.value[1].running_status[1].current) ELSE None
            exc == IF o.exc # "none" THEN o.exc
                   ELSE IF o.value = None THEN "ProjectNotFoundError"
                   ELSE IF running_status = Some("Running") THEN "none"
                   ELSE IF running_status \in {Some("Stopped"), Some("Error")}
                        THEN "DeploymentError"
                   ELSE IF TimedOut(locals[1].timeout, elapsed) THEN "TimeoutError"
                   ELSE "sleep"
        IN /\ calls' = Append(calls, Call("get_project", o.exc = "none"))
           /\ attempts' = attempts + 1
           /\ project' = IF o.exc = "none" THEN o.value ELSE project
           /\ locals' = Some([locals[1] EXCEPT
                                !.elapsed = IF o.exc = "none" THEN elapsed ELSE @,
                                !.now = IF exc = "sleep" THEN elapsed + poll_interval
                                        ELSE elapsed])
           /\ IF exc = "sleep" THEN
                 UNCHANGED <<pc, result, escaped, stdout, ui_log, exit_code>>
              ELSE IF entry = "wait_for_deployment" THEN
                 /\ IF exc = "none"
                    THEN Return([provisioning_state |-> o.value[1].provisioning_state,
                                 running_status |-> o.value[1].running_status])
                    ELSE Raise(exc)
                 /\ UNCHANGED <<stdout, ui_log, exit_code>>
              ELSE
                 wait_command_Handle(exc, IF o.exc = "none" /\ o.value # None
                                          THEN o.value[1] ELSE None,
                                     running_status)
    /\ UNCHANGED <<entry, args, preflight, spec_result, assessment, deployment,
                   seenDeployed, json_out, neptune_json>>

(* wait_for_deployment called with or without a timeout, `neptune wait`   *)
(* with --timeout 0 or 2, and the deploy command and the deploy_project   *)
(* tool just after the image push.                                        *)
WaitInit ==
    /\ entry \in {"wait_for_deployment", "wait_command", "deploy_command",
                 "deploy_project"}
    /\ pc = CASE entry = "wait_for_deployment" -> "wait"
              [] entry = "wait_command" -> "start"
              [] entry \in {"deploy_command", "deploy_project"} -> "poll"
    /\ args \in IF entry = "wait_for_deployment" THEN {DefaultArgs}
                ELSE {DefaultArgs, [DefaultArgs EXCEPT !.output_mode = "json"]}
    /\ locals \in CASE entry = "wait_for_deployment" ->
                         {Some([timeout |-> t, now |-> 0, elapsed |-> 0]) :
                          t \in {None, Some(0), Some(2)}}
                    [] entry = "wait_command" ->
                         {Some([option |-> t, timeout |-> None, now |-> 0, elapsed |-> 0]) :
                          t \in {0, 2}}
                    [] entry \in {"deploy_command", "deploy_project"} -> {None}
    /\ deployment \in IF entry \in {"deploy_command", "deploy_project"}
                      THEN {Some(d) : d \in Deployments} ELSE {None}
    /\ json_out = IF entry = "deploy_command" /\ args.output_mode = "json"
                  THEN Some(NewDeployResult) ELSE None
    /\ calls = IF entry \in {"deploy_command", "deploy_project"}
               THEN <<Call("docker_push", TRUE)>> ELSE <<>>
    /\ preflight = None
    /\ spec_result = None
    /\ assessment = None
    /\ attempts = 0
    /\ project = None
    /\ seenDeployed = FALSE
    /\ stdout = <<>>
    /\ ui_log = <<>>
    /\ exit_code = None
    /\ escaped = None
    /\ result = None
    /\ neptune_json = None

WaitSpec ==
    WaitInit /\ [][\/ wait_command_Start
                   \/ wait_for_deployment_Poll
                   \/ deploy_Poll
                   \/ deploy_Final
                   \/ deploy_project_Poll]_vars

-----------------------------------------------------------------------------
(* Claims about waiting for a deployment. *)
LatestRunning ==
    IF project # None /\ project[1].running_status # None
    THEN Some(project[1].running_status[1].current) ELSE None

(* C21: wait_for_deployment ends in one of four outcomes, each decided on  *)
(* the latest snapshot: it returns only on "Running", raises               *)
(* DeploymentError only on "Stopped" or "Error", ProjectNotFoundError only *)
(* when the lookup found nothing, and TimeoutError only when a timeout was *)
(* given and the elapsed time exceeded it while the status was not         *)
(* terminal; any other exception is the one the lookup itself raised.      *)
(* The deploy command's poll after the push never ends in a timeout.       *)
C21_WaitOutcomesFollowLatestSnapshot ==
    /\ (entry = "wait_for_deployment" /\ pc = "done") =>
          /\ (result # None) # (escaped # None)
          /\ result # None =>
                /\ LatestRunning = Some("Running")
                /\ result[1].running_status = project[1].running_status
          /\ escaped = Some("DeploymentError") =>
                LatestRunning \in {Some("Stopped"), Some("Error")}
          /\ escaped = Some("ProjectNotFoundError") =>
                project = None /\ LastCall = Call("get_project", TRUE)
          /\ escaped = Some("TimeoutError") =>
                /\ locals[1].timeout # None
                /\ locals[1].elapsed > locals[1].timeout[1]
                /\ project # None
                /\ LatestRunning \notin {Some("Running"), Some("Stopped"), Some("Error")}
          /\ (escaped # None /\ escaped[1] \notin {"DeploymentError", "ProjectNotFoundError",
                                                   "TimeoutError"}) =>
                LastCall = Call("get_project", FALSE) /\ escaped = Some("HTTPError")
    /\ (entry = "wait_for_deployment" /\ locals[1].timeout = None) =>
          escaped # Some("TimeoutError")
    /\ entry = "deploy_command" =>
          /\ escaped # Some("TimeoutError")
          /\ (pc = "poll" /\ attempts > 0) =>
                (deployment[1].status # "Deployed" /\ attempts < max_attempts)
          /\ pc = "done" => (escaped # None \/ exit_code = Some(ExitOfReturn))

(* A wait with a timeout has ended in TimeoutError after sleeping once. *)
C21_Witness ==
    /\ entry = "wait_for_deployment" /\ pc = "done"
    /\ escaped = Some("TimeoutError")
    /\ attempts >= 2

(* C28: for every --timeout T >= 0, T = 0 included, `neptune wait` is      *)
(* not still polling once the deadline test has read an elapsed time       *)
(* above T on a status that is not terminal: it has ended in the timeout   *)
(* failure.                                                                *)
C28_WaitCommandStopsAfterDeadline ==
    (/\ entry = "wait_command"
     /\ attempts >= 1
     /\ LastCall = Call("get_project", TRUE)
     /\ project # None
     /\ LatestRunning \notin {Some("Running"), Some("Stopped"), Some("Error")}
     /\ locals[1].elapsed > locals[1].option)
    => /\ pc = "done"
       /\ exit_code = Some(ExitOfCtxExit)
       /\ args.output_mode = "json" =>
             stdout[Len(stdout)].next_action_command
                 = Some("neptune wait --timeout <seconds>")

(* C21 as first stated: the four outcomes are the only ones. *)
C21_OnlyFourOutcomes ==
    (entry = "wait_for_deployment" /\ pc = "done") =>
        \/ result # None /\ LatestRunning = Some("Running")
        \/ escaped = Some("DeploymentError")
        \/ escaped = Some("ProjectNotFoundError")
        \/ escaped = Some("TimeoutError")

-----------------------------------------------------------------------------
(* Configuration (config.py): the import of the module, which sets an     *)
(* environment variable, and the construction of CLISettings from its     *)
(* sources.  locals[1].given is the environment the process was started   *)
(* with, locals[1].environ is os.environ, locals[1].file is the content   *)
(* of config.json (None when there is no such file) and locals[1].init    *)
(* are the keyword arguments given to CLISettings.                         *)
LOCAL_API_BASE_URL == "http://localhost:8000/v1"
DEFAULT_API_BASE_URL == "https://neptune.shuttle.dev/v1"

(* The fields of CLISettings and their defaults. *)
FieldDefault ==
    [access_token |-> None, api_base_url |-> Some(DEFAULT_API_BASE_URL)]

(* NeptuneJsonConfigSource.__call__: read_bytes() of a missing file       *)
(* raises; for each field `data.get(name) or field.default_factory()`,    *)
(* and default_factory is None for a field declared with default=, so a   *)
(* field the file does not give raises TypeError.                          *)
NeptuneJsonConfigSource(file) ==
    IF file = None THEN [exc |-> "FileNotFoundError"]
    ELSE IF \E f \in DOMAIN FieldDefault : file[1][f] = None
         THEN [exc |-> "TypeError"]
    ELSE [exc |-> "none", data |-> file[1]]

(* EnvSettingsSource with env_prefix "NEPTUNE_". *)
EnvSettingsSource(environ) ==
    [access_token |-> environ.NEPTUNE_ACCESS_TOKEN,
     api_base_url |-> environ.NEPTUNE_API_BASE_URL]

(* BaseSettings builds the values from the tuple that                      *)
(* settings_customise_sources returns: for each field the first source    *)
(* of the tuple that gives it, else the field's default.                   *)
settings_build_values(sources) ==
    [f \in DOMAIN FieldDefault |->
        LET provided == {i \in DOMAIN sources : sources[i][f] # None}
        IN IF provided = {} THEN FieldDefault[f]
           ELSE sources[CHOOSE i \in provided : \A j \in provided : i <= j][f]]

(* The module-level assignment to os.environ["NEPTUNE_API_BASE_URL"]. *)
config_Import ==
    /\ entry = "config" /\ pc = "import"
    /\ locals' = Some([locals[1] EXCEPT
                         !.environ.NEPTUNE_API_BASE_URL =
                             IF locals[1].environ.NEPTUNE_API_ENV = Some("local")
                             THEN Some(LOCAL_API_BASE_URL)
                             ELSE Some(DEFAULT_API_BASE_URL)])
    /\ pc' = "build"
    /\ UNCHANGED <<entry, args, preflight, spec_result, assessment, deployment,
                   attempts, project, calls, seenDeployed, json_out, stdout,
                   ui_log, exit_code, escaped, result, neptune_json>>

(* CLISettings(): every source      is called, then the values merged;   *)
(* the sources are (init, env, dotenv, secrets, config file), and there   *)
(* is no dotenv file and no secrets directory.                             *)
CLISettings_Build ==
    /\ entry = "config" /\ pc = "build"
    /\ LET json_source == NeptuneJsonConfigSource(locals[1].file)
       IN IF json_source.exc # "none"
          THEN Raise(json_source.exc)
          ELSE Return(settings_build_values(
                          <<locals[1].init,
                            EnvSettingsSource(locals[1].environ),
                            json_source.data>>))
    /\ UNCHANGED <<entry, args, preflight, spec_result, assessment, deployment,
                   attempts, project, calls, seenDeployed, json_out, stdout,
                   ui_log, exit_code, neptune_json, locals>>

ConfigInit ==
    /\ entry = "config" /\ pc = "import"
    /\ \E environ \in [NEPTUNE_API_ENV : {None, Some("local")},
                       NEPTUNE_API_BASE_URL : {None, Some("https://env.example/v1")},
                       NEPTUNE_ACCESS_TOKEN : {None, Some("env-token")}],
          file \in {None} \cup
                   {Some(d) : d \in [access_token : {None, Some("file-token")},
                                     api_base_url : {None, Some("https://file.example/v1")}]},
          init \in [access_token : {None, Some("init-token")},
                    api_base_url : {None, Some("https://init.example/v1")}] :
        locals = Some([given |-> environ, environ |-> environ,
                       file |-> file, init |-> init])
    /\ args = DefaultArgs
    /\ preflight = None
    /\ spec_result = None
    /\ assessment = None
    /\ deployment = None
    /\ attempts = 0
    /\ project = None
    /\ calls = <<>>
    /\ seenDeployed = FALSE
    /\ json_out = None
    /\ stdout = <<>>
    /\ ui_log = <<>>
    /\ exit_code = None
    /\ escaped = None
    /\ result = None
    /\ neptune_json = None

ConfigSpec == ConfigInit /\ [][config_Import \/ CLISettings_Build]_vars

(* C22: each field of the settings built has the value of the             *)
(* highest-priority source that gives it, the priority ascending from the *)
(* built-in default over the environment variable and the persisted       *)
(* config file to the explicit override; a value of the file wins over    *)
(* the environment variable.                                               *)
C22_FileWinsOverEnvironment ==
    (entry = "config" /\ pc = "done" /\ result # None) =>
        \A f \in DOMAIN FieldDefault :
            result[1][f] =
                IF locals[1].init[f] # None THEN locals[1].init[f]
                ELSE IF locals[1].file # None /\ locals[1].file[1][f] # None
                     THEN locals[1].file[1][f]
                ELSE IF EnvSettingsSource(locals[1].given)[f] # None
                     THEN EnvSettingsSource(locals[1].given)[f]
                ELSE FieldDefault[f]

-----------------------------------------------------------------------------
(* The Resource Provisioner against a platform of which more is known.     *)

(* The MCP server has sent the tool's reply over stdio, and the tool is    *)
(* called once more with the same neptune.json.  `project` still holds the *)
(* last snapshot the platform gave; the new call assigns it before it      *)
(* reads it.                                                               *)
provision_Again ==
    /\ entry = "provision_resources" /\ pc = "done"
    /\ result # None /\ stdout = <<>>
    /\ stdout' = Append(stdout, result[1])
    /\ pc' = "validate"
    /\ result' = None
    /\ attempts' = 0
    /\ locals' = None
    /\ UNCHANGED <<entry, args, preflight, spec_result, assessment, deployment,
                   project, calls, seenDeployed, json_out, ui_log, exit_code,
                   escaped, neptune_json>>

(* A platform that keeps its resources: it answers every request; it has   *)
(* the project from the first successful create or update on, creates only *)
(* what it does not have and updates only what it has; and a project it    *)
(* shows again has the same resources, each one that was no longer Pending *)
(* unchanged.                                                              *)
KeepsResources ==
    Len(calls') > Len(calls) =>
        LET c == calls'[Len(calls')]
            has == \/ Succeeded("create_project") \/ Succeeded("update_project")
                   \/ (locals # None /\ locals[1].found)
        IN /\ c.op = "get_project" => c.ok
           /\ c.op = "create_project" => (c.ok <=> ~has)
           /\ c.op = "update_project" => (c.ok <=> has)
           /\ (c.op = "get_project" /\ pc = "lookup" /\ has) => locals'[1].found
           /\ (c.op = "get_project" /\ pc # "lookup") =>
                 /\ project' # None
                 /\ project # None =>
                       /\ Len(project'[1].resources) = Len(project[1].resources)
                       /\ \A i \in DOMAIN project[1].resources :
                             LET old == project[1].resources[i]
                                 new == project'[1].resources[i]
                             IN /\ new.kind = old.kind /\ new.name = old.name
                                /\ old.status # "Pending" => new = old

(* Two consecutive provision_resources calls with the same neptune.json    *)
(* against such a platform.                                                *)
ProvisionTwiceInit ==
    /\ ProvisionInit
    /\ entry = "provision_resources"
    /\ neptune_json = Some(WrittenSpec)

ProvisionTwiceNext ==
    \/ provision_Validate /\ KeepsResources
    \/ provision_Lookup /\ KeepsResources
    \/ provision_Put /\ KeepsResources
    \/ provision_Fetch /\ KeepsResources
    \/ provision_LoopA /\ KeepsResources
    \/ provision_LoopB /\ KeepsResources
    \/ provision_Again

ProvisionTwiceSpec == ProvisionTwiceInit /\ [][ProvisionTwiceNext]_vars

(* C23: of two consecutive provision_resources calls with an unchanged     *)
(* spec against a platform that keeps its resources, neither ends in an    *)
(* error, the second one updates and never creates, and both return the    *)
(* same resources with the same aws_id and the same bucket ids.            *)
C23_SecondProvisionUpdatesAndReturnsSame ==
    (entry = "provision_resources" /\ pc = "done") =>
        /\ escaped = None
        /\ ProvisionSucceeded
        /\ stdout # <<>> =>
              /\ result[1].infrastructure_resources = stdout[1].infrastructure_resources
              /\ result[1].storage_bucket_ids = stdout[1].storage_bucket_ids
              /\ PutCount = 2
              /\ \E i \in DOMAIN calls :
                    /\ IsPut(calls[i])
                    /\ \A j \in (i + 1)..Len(calls) :
                          IsPut(calls[j]) => calls[j] = Call("update_project", TRUE)
                    /\ \E j \in (i + 1)..Len(calls) : IsPut(calls[j])

(* The second call has returned, after the first one created the project   *)
(* and waited for a bucket.                                                *)
C23_Witness ==
    /\ entry = "provision_resources" /\ pc = "done"
    /\ stdout # <<>> /\ result # None
    /\ Succeeded("create_project")
    /\ stdout[1].storage_bucket_ids # {}
    /\ CallCount("get_project") >= 5

-----------------------------------------------------------------------------
(* ai_spec_to_platform_request on its own: it is applied to an AI spec     *)
(* and a project name, and then to its own output.  A key the AI spec does *)
(* not have reads as its default ("" or []), so an absent key is the same  *)
(* input as the default value.  locals[1].project_name is None when the    *)
(* caller gives no name; None and "" are both falsy.                       *)
ai_spec_to_platform_request_Call ==
    /\ entry = "ai_spec_to_platform_request" /\ pc \in {"input", "mapped"}
    /\ LET project_name == IF locals[1].project_name = None THEN ""
                           ELSE locals[1].project_name[1]
           ai_spec ==
               IF pc = "input" THEN locals[1].ai_spec
               ELSE [name |-> Get(result[1], "name").s,
                     resources |->
                        [i \in DOMAIN Get(result[1], "resources").items |->
                           [kind |-> Get(Get(result[1], "resources").items[i], "kind").s,
                            name |-> Get(Get(result[1], "resources").items[i], "name").s]]]
       IN /\ result' = Some(ai_spec_to_platform_request(ai_spec, project_name))
          /\ locals' = Some([locals[1] EXCEPT !.first = result])
    /\ pc' = IF pc = "input" THEN "mapped" ELSE "done"
    /\ UNCHANGED <<entry, args, preflight, spec_result, assessment, deployment,
                   attempts, project, calls, seenDeployed, json_out, stdout,
                   ui_log, exit_code, escaped, neptune_json>>

(* AI specs with every kind of the table and one outside it. *)
MappingInit ==
    /\ entry = "ai_spec_to_platform_request" /\ pc = "input"
    /\ locals \in {Some([ai_spec |-> [name |-> n, resources |-> r],
                         project_name |-> p, first |-> None]) :
                     n \in {"", "ai-app"},
                     r \in UNION {[1..k -> [kind : {"ObjectStorageBucket", "Database",
                                                    "StorageBucket", "Secret", "Queue"},
                                            name : {"r", "s"}]] : k \in 0..MaxResources},
                     p \in {None, Some(""), Some("app")}}
    /\ args = DefaultArgs
    /\ preflight = None
    /\ spec_result = None
    /\ assessment = None
    /\ deployment = None
    /\ attempts = 0
    /\ project = None
    /\ calls = <<>>
    /\ seenDeployed = FALSE
    /\ json_out = None
    /\ stdout = <<>>
    /\ ui_log = <<>>
    /\ exit_code = None
    /\ escaped = None
    /\ result = None
    /\ neptune_json = None

MappingSpec == MappingInit /\ [][ai_spec_to_platform_request_Call]_vars

(* The resources of the result are those of the AI spec, in order, each    *)
(* with its name and with its kind renamed by the table.                   *)
MappedResourcesFollowTable ==
    LET ins == locals[1].ai_spec.resources
        outs == Get(result[1], "resources").items
    IN /\ Len(outs) = Len(ins)
       /\ \A i \in DOMAIN ins :
             /\ Get(outs[i], "name") = Str(ins[i].name)
             /\ Get(outs[i], "kind") =
                   Str(CASE ins[i].kind = "ObjectStorageBucket" -> "StorageBucket"
                         [] ins[i].kind \in {"Database", "StorageBucket", "Secret"} ->
                              ins[i].kind
                         [] OTHER -> ins[i].kind)

-----------------------------------------------------------------------------
(* The Resource Provisioner against a platform that becomes ready.         *)

(* A platform that reports the project Ready with no resource Pending from *)
(* some poll on, and keeps doing so: whatever it answers before, the poll  *)
(* numbered MaxProvisionPolls is answered with such a snapshot.            *)
EventuallyReady ==
    (attempts' > attempts /\ attempts' >= MaxProvisionPolls) =>
        /\ calls'[Len(calls')] = Call("get_project", TRUE)
        /\ project' # None
        /\ AllReady(project'[1])

ProvisionLiveNext ==
    \/ provision_Validate /\ EventuallyReady
    \/ provision_Lookup /\ EventuallyReady
    \/ provision_Put /\ EventuallyReady
    \/ provision_Fetch /\ EventuallyReady
    \/ provision_LoopA /\ EventuallyReady
    \/ provision_LoopB /\ EventuallyReady
    \/ wait_for_provisioning_Poll /\ EventuallyReady
    \/ resource_provision /\ EventuallyReady

(* Nothing but the platform's answers can hold the provisioner up: every   *)
(* step it can take is taken in the end.                                   *)
ProvisionLiveSpec ==
    ProvisionInit /\ [][ProvisionLiveNext]_vars /\ WF_vars(ProvisionLiveNext)

(* C24: against a platform that in the end reports the project Ready and   *)
(* every resource not Pending, the provisioner terminates; and it does not *)
(* give up on its own: when its last lookup succeeded and found the        *)
(* project, it ends in a failure only by the timeout its caller gave it,   *)
(* which by default is none.                                               *)
C24_ProvisionerWaitIsLive ==
    /\ <>(pc = "done")
    /\ []((/\ entry \in {"provision_resources", "wait_for_provisioning"}
           /\ pc = "done"
           /\ attempts >= 1
           /\ LastCall = Call("get_project", TRUE)
           /\ project # None)
          => \/ ProvisionSucceeded
             \/ /\ entry = "wait_for_provisioning"
                /\ locals[1].timeout # None
                /\ escaped = Some("TimeoutError")
                /\ ~AllReady(project[1]))

(* provision_resources has returned after it used every poll, the last     *)
(* loop having waited for a resource.                                      *)
C24_Witness ==
    /\ entry = "provision_resources" /\ pc = "done"
    /\ ProvisionSucceeded
    /\ attempts = MaxProvisionPolls
    /\ CallCount("get_project") = MaxProvisionPolls + 1

(* C26: when a lookup of a provisioning wait finds no project, at the      *)
(* first poll or a later one, the operation ends with the not-found        *)
(* condition that names the project, not with another error.               *)
C26_NotFoundWhilePollingIsTyped ==
    (/\ entry \in {"provision_resources", "wait_for_provisioning"}
     /\ pc = "done"
     /\ attempts >= 1
     /\ LastCall = Call("get_project", TRUE)
     /\ project = None)
    => escaped = Some("ProjectNotFoundError")

(* C27: after a successful image push the deploy command and the           *)
(* deploy_project tool stop polling at the same poll: at the first         *)
(* "Deployed", and otherwise when the attempt budget of max_attempts polls *)
(* is used up.  So neither polls again once it has seen "Deployed", and    *)
(* neither makes a poll beyond the budget.                                 *)
C27_BothPollersStopWithinBudget ==
    entry \in {"deploy_command", "deploy_project"} =>
        /\ seenDeployed => deployment[1].status = "Deployed"
        /\ attempts <= max_attempts

-----------------------------------------------------------------------------
(* The command `neptune delete` (commands/delete.py).  Each of its         *)
(* failure branches prints and returns.  locals[1] records whether        *)
(* standard input is a terminal, what the lookup found and what the       *)
(* prompt returned.                                                        *)

(* Mutant: the prompt falls back to the default of ui.confirm's signature. *)
confirm_DefaultTrue(isatty, answer, default) == IF ~isatty THEN TRUE ELSE answer

(* ui.confirm: the default when standard input is no terminal, else the    *)
(* user's answer.                                                          *)
confirm(isatty, answer, default) == IF ~isatty THEN default ELSE answer

(* print the CommandResult in JSON mode or the lines otherwise; return *)
delete_command_Report(ok, message, next_action_command, lines) ==
    /\ stdout' = IF args.output_mode = "json"
                 THEN Append(stdout, [ok |-> ok, messages |-> <<message>>,
                                      next_action_command |-> next_action_command])
                 ELSE stdout
    /\ ui_log' = ui_log \o lines
    /\ exit_code' = Some(ExitOfReturn)
    /\ pc' = "done"

(* resolve the project name, then get_project_status(project_name) *)
delete_command_Lookup ==
    /\ entry = "delete_command" /\ pc = "lookup"
    /\ \E resolved \in BOOLEAN, o \in GetProjectOutcomes :
        IF ~resolved THEN
           /\ delete_command_Report(FALSE, "Could not determine project name",
                                    "neptune delete --project-name <name>",
                                    Ui("header", "Delete")
                                    \o Ui("error", "Could not determine project name")
                                    \o Ui("info", "Run from a project directory or use --project-name"))
           /\ UNCHANGED <<calls, project, locals>>
        ELSE
           /\ calls' = Append(calls, Call("get_project", o.exc = "none"))
           /\ IF o.exc # "none" THEN
                 /\ delete_command_Report(FALSE, "Failed to get project info: " \o o.exc,
                                          "neptune delete",
                                          Ui("header", "Delete")
                                          \o Ui("error", "Failed to get project info: " \o o.exc))
                 /\ UNCHANGED <<project, locals>>
              ELSE IF o.value = None THEN
                 /\ delete_command_Report(FALSE, "Project '" \o ProjectName \o "' not found",
                                          "neptune list projects",
                                          Ui("header", "Delete")
                                          \o Ui("warn", "Project '" \o ProjectName \o "' not found"))
                 /\ project' = o.value
                 /\ UNCHANGED locals
              ELSE
                 /\ project' = o.value
                 /\ locals' = Some([locals[1] EXCEPT !.found = TRUE])
                 /\ ui_log' = ui_log \o Ui("header", "Delete")
                 /\ pc' = "confirm"
                 /\ UNCHANGED <<stdout, exit_code>>
    /\ UNCHANGED <<entry, args, preflight, spec_result, assessment, deployment,
                   attempts, seenDeployed, json_out, escaped, result, neptune_json>>

(* `if not yes and output_mode != OutputMode.JSON:` the prompt *)
delete_command_Confirm ==
    /\ entry = "delete_command" /\ pc = "confirm"
    /\ IF ~args.yes /\ args.output_mode # "json" THEN
          \E answer \in BOOLEAN :
             LET isatty == locals[1].isatty
                 confirmed == confirm(isatty, answer, FALSE)
                 lines == Ui("step", "Project: " \o ProjectName)
                          \o Ui("warn", "This will permanently delete the project and all its resources!")
             IN /\ locals' = Some([locals[1] EXCEPT
                                     !.prompted = TRUE,
                                     !.confirmed = (isatty /\ answer)])
                /\ IF ~confirmed
                   THEN /\ ui_log' = ui_log \o lines \o Ui("step", "Aborted")
                        /\ exit_code' = Some(ExitOfReturn)
                        /\ pc' = "done"
                   ELSE /\ ui_log' = ui_log \o lines
                        /\ pc' = "delete"
                        /\ UNCHANGED exit_code
       ELSE
          /\ pc' = "delete"
          /\ UNCHANGED <<locals, ui_log, exit_code>>
    /\ UNCHANGED <<entry, args, preflight, spec_result, assessment, deployment,
                   attempts, project, calls, seenDeployed, json_out, stdout,
                   escaped, result, neptune_json>>

(* services.project.delete_project: its own lookup, then                   *)
(* client.delete_project; and the command's report.                        *)
delete_command_Delete ==
    /\ entry = "delete_command" /\ pc = "delete"
    /\ \E o \in GetProjectOutcomes, exc \in {"none", "HTTPError"} :
        IF o.exc # "none" THEN
           /\ calls' = Append(calls, Call("get_project", FALSE))
           /\ delete_command_Report(FALSE, "Failed to delete project: " \o o.exc,
                                    "neptune delete",
                                    Ui("error", "Failed to delete project: " \o o.exc))
        ELSE IF o.value = None THEN
           /\ calls' = Append(calls, Call("get_project", TRUE))
           /\ delete_command_Report(FALSE, "Project '" \o ProjectName \o "' not found",
                                    "neptune list projects",
                                    Ui("warn", "Project '" \o ProjectName \o "' not found"))
        ELSE
           /\ calls' = calls \o <<Call("get_project", TRUE),
                                  Call("delete_project", exc = "none")>>
           /\ IF exc # "none"
              THEN delete_command_Report(FALSE, "Failed to delete project: " \o exc,
                                         "neptune delete",
                                         Ui("error", "Failed to delete project: " \o exc))
              ELSE delete_command_Report(TRUE, "Project '" \o ProjectName
                                               \o "' deleted successfully",
                                         "neptune list projects",
                                         Ui("success", "Project '" \o ProjectName
                                                       \o "' deleted successfully"))
    /\ UNCHANGED <<entry, args, preflight, spec_result, assessment, deployment,
                   attempts, project, seenDeployed, json_out, escaped, result,
                   neptune_json, locals>>

DeleteInit ==
    /\ entry = "delete_command" /\ pc = "lookup"
    /\ args \in {a \in Args : ~a.skip_spec /\ ~a.skip_lint
                              /\ ~a.allow_ai_errors /\ ~a.allow_ai_warnings}
    /\ locals \in {Some([isatty |-> t, found |-> FALSE, prompted |-> FALSE,
                         confirmed |-> FALSE]) : t \in BOOLEAN}
    /\ preflight = None
    /\ spec_result = None
    /\ assessment = None
    /\ deployment = None
    /\ attempts = 0
    /\ project = None
    /\ calls = <<>>
    /\ seenDeployed = FALSE
    /\ json_out = None
    /\ stdout = <<>>
    /\ ui_log = <<>>
    /\ exit_code = None
    /\ escaped = None
    /\ result = None
    /\ neptune_json = None

DeleteSpec ==
    DeleteInit /\ [][\/ delete_command_Lookup
                     \/ delete_command_Confirm
                     \/ delete_command_Delete]_vars

(* C29: `neptune delete` calls delete_project only when its lookup found   *)
(* the project and --yes was given, or the output is JSON, or the prompt   *)
(* returned true, which it does only for a user at a terminal who agreed;  *)
(* when the project was not found, the lookup failed, the user declined or *)
(* the input is no terminal and --yes is absent, it makes no such call.    *)
C29_DeleteOnlyWhenFoundAndConfirmed ==
    entry = "delete_command" =>
        /\ Called("delete_project") =>
              /\ locals[1].found
              /\ calls[1] = Call("get_project", TRUE)
              /\ args.yes \/ args.output_mode = "json" \/ locals[1].confirmed
        /\ (/\ pc = "done"
            /\ \/ ~locals[1].found
               \/ (~args.yes /\ args.output_mode # "json" /\ ~locals[1].confirmed))
           => ~Called("delete_project")
        /\ (locals[1].prompted /\ ~locals[1].confirmed) => pc = "done"

(* The user was asked at a terminal, agreed, and the project was deleted. *)
C29_Witness ==
    /\ entry = "delete_command" /\ pc = "done"
    /\ ~args.yes /\ args.output_mode # "json"
    /\ locals[1].prompted /\ locals[1].confirmed
    /\ Succeeded("delete_project")

-----------------------------------------------------------------------------
(* The browser login of `neptune login` (cli.py) and of the MCP tool login *)
(* (mcp.py), with the thread of the OAuth callback listener.  locals[1]    *)
(* holds the listener thread's state, httpd.access_token and the token in  *)
(* the persisted configuration.  The command is run without --api-key.     *)

(* serve_callback_handler, then webbrowser.open(login_url).  The tool      *)
(* returns at once when no browser could be opened.                        *)
login_Open ==
    /\ entry \in {"login", "mcp_login"} /\ pc = "open"
    /\ \E browser_opened \in BOOLEAN :
        /\ calls' = Append(calls, Call("webbrowser.open", browser_opened))
        /\ locals' = Some([locals[1] EXCEPT !.listener = "running"])
        /\ IF entry = "mcp_login" /\ ~browser_opened THEN
              /\ Return([status |-> "pending",
                         message |-> "Could not open browser automatically.",
                         next_step |-> "Please open the URL above in your browser to complete login, then call this tool again."])
              /\ UNCHANGED ui_log
           ELSE
              /\ ui_log' = IF entry = "login"
                           THEN ui_log \o Ui("header", "Login")
                                \o (IF browser_opened THEN <<>>
                                    ELSE <<[k |-> "echo",
                                            m |-> "Please open the following URL in a browser to log in:"]>>)
                           ELSE ui_log
              /\ pc' = "join"
              /\ UNCHANGED <<result, escaped>>
    /\ UNCHANGED <<entry, args, preflight, spec_result, assessment, deployment,
                   attempts, project, seenDeployed, json_out, stdout, exit_code,
                   neptune_json>>

(* The listener thread: it serves one callback request, which may or may   *)
(* not carry a token, and stores the token in httpd.access_token; then the *)
(* thread ends.                                                            *)
serve_callback_handler_Thread ==
    /\ entry \in {"login", "mcp_login"}
    /\ locals[1].listener \in {"running", "served"}
    /\ IF locals[1].listener = "running"
       THEN \E token \in {None, Some("token-a"), Some("token-b")} :
               locals' = Some([locals[1] EXCEPT !.listener = "served",
                                                !.access_token = token])
       ELSE locals' = Some([locals[1] EXCEPT !.listener = "terminated"])
    /\ UNCHANGED <<entry, pc, args, preflight, spec_result, assessment,
                   deployment, attempts, project, calls, seenDeployed, json_out,
                   stdout, ui_log, exit_code, escaped, result, neptune_json>>

(* thread.join() returns once the listener thread has ended; then the      *)
(* token is read, and persisted if there is one.                           *)
login_Join ==
    /\ entry \in {"login", "mcp_login"} /\ pc = "join"
    /\ locals[1].listener = "terminated"
    /\ LET access_token == locals[1].access_token
       IN /\ IF access_token # None THEN
                /\ locals' = Some([locals[1] EXCEPT !.config_file = access_token])
                /\ calls' = Append(calls, Call("save", TRUE))
             ELSE UNCHANGED <<locals, calls>>
          /\ IF entry = "mcp_login" THEN
                /\ Return(IF access_token # None
                          THEN [status |-> "success",
                                message |-> "Successfully logged in!"]
                          ELSE [status |-> "error",
                                message |-> "Login failed - no access token received."])
                /\ UNCHANGED <<stdout, ui_log, exit_code>>
             ELSE
                /\ stdout' = IF args.output_mode # "json" THEN stdout
                             ELSE IF access_token # None
                                  THEN Append(stdout, [ok |-> TRUE])
                                  ELSE Append(stdout, [ok |-> FALSE, error |-> "Login failed"])
                /\ ui_log' = ui_log \o (IF access_token # None
                                        THEN Ui("success", "Login successful!")
                                        ELSE Ui("error", "Login failed"))
                /\ exit_code' = Some(IF access_token # None THEN ExitOfReturn
                                     ELSE ExitOfCtxExit)
                /\ pc' = "done"
                /\ UNCHANGED <<result, escaped>>
    /\ UNCHANGED <<entry, args, preflight, spec_result, assessment, deployment,
                   attempts, project, seenDeployed, json_out, neptune_json>>

LoginInit ==
    /\ entry \in {"login", "mcp_login"} /\ pc = "open"
    /\ args \in IF entry = "login"
                THEN {DefaultArgs, [DefaultArgs EXCEPT !.output_mode = "json"]}
                ELSE {DefaultArgs}
    /\ locals \in {Some([listener |-> "none", access_token |-> None,
                         config_file |-> t]) : t \in {None, Some("token-old")}}
    /\ preflight = None
    /\ spec_result = None
    /\ assessment = None
    /\ deployment = None
    /\ attempts = 0
    /\ project = None
    /\ calls = <<>>
    /\ seenDeployed = FALSE
    /\ json_out = None
    /\ stdout = <<>>
    /\ ui_log = <<>>
    /\ exit_code = None
    /\ escaped = None
    /\ result = None
    /\ neptune_json = None

LoginSpec ==
    LoginInit /\ [][login_Open \/ serve_callback_handler_Thread \/ login_Join]_vars

(* C30: in both browser logins the listener thread has ended before the    *)
(* token is read and persisted, and whenever the login has returned to its *)
(* caller the listener thread is no longer running.                        *)
C30_ListenerJoinedBeforeReturn ==
    entry \in {"login", "mcp_login"} =>
        /\ Called("save") => locals[1].listener = "terminated"
        /\ pc = "done" => locals[1].listener = "terminated"

====
